---- MODULE Spec2Model ----
(***************************************************************************)
(* The constraint-satisfaction core of AC3ross (src/src/solver.py):         *)
(* CrosswordSolver's construction (node consistency and theme pinning),     *)
(* AC-3 and the backtracking search, one arc and one search step at a time. *)
(*                                                                          *)
(* A slot is named by its position in the slot list; slots[s] is its        *)
(* length, the only attribute of a Slot the solver reads.  A word is a      *)
(* sequence of letters.  Indices are 1-based here: index i stands for the   *)
(* source's i-1.                                                            *)
(***************************************************************************)
EXTENDS Integers, Sequences, FiniteSets, TLC

VARIABLES
    slots,             \* self.slots: the list of slot lengths
    word_list,         \* the words passed to the constructor (as a set)
    overlaps,          \* self.overlaps: (slot1, slot2) -> (index1, index2)
    theme_assignment,  \* self.theme_assignment: slot -> pinned word
    theme,             \* self.theme: None, or the word scores of a ThemeManager
    theme_influence,   \* self.theme_influence
    pc,                \* where the caller / the solver is
    domains,           \* self.domains: slot -> set of words
    queue,             \* ac3: the queue of arcs, next to pop first
    ac3_result,        \* what the last ac3() returned ("running" inside it)
    assignment,        \* the assignment dict shared by every backtrack frame
    stack,             \* the frames of backtrack, innermost last
    backtrack_count,   \* self.backtrack_count
    returned,          \* what the last two completed solve() calls returned
    printed,           \* the closing line each of them printed
    width,             \* CrosswordGrid: self.width
    height,            \* self.height
    enforce_symmetry,  \* self.enforce_symmetry
    grid,              \* self.grid: (row, col) -> None, '#' or a character
    grid_pc,           \* where the caller of the grid is
    grid_slots,        \* what extract_slots() returned
    grid_overlaps,     \* what calculate_overlaps(slots) returned
    description,       \* ThemeManager: self.description
    theme_words,       \* self.theme_words
    word_scores,       \* self.word_scores: word -> score
    ever_scored,       \* the words a call has given a score so far
    outcome            \* the last call made: its arguments and how it ended

\* the variables of the solver
solver_vars == <<slots, word_list, overlaps, theme_assignment, theme,
                 theme_influence, pc, domains, queue, ac3_result, assignment,
                 stack, backtrack_count, returned, printed>>

\* the variables of the grid
grid_vars == <<width, height, enforce_symmetry, grid, grid_pc, grid_slots,
               grid_overlaps>>

\* the variables of the theme manager
theme_vars == <<description, theme_words, word_scores, ever_scored>>

vars == <<solver_vars, grid_vars, theme_vars, outcome>>

\* no grid: the solver is given its slots and overlaps directly
NoGrid ==
    /\ width = 0
    /\ height = 0
    /\ enforce_symmetry = FALSE
    /\ grid = <<>>
    /\ grid_pc = "none"
    /\ grid_slots = <<>>
    /\ grid_overlaps = <<>>

inputs == <<slots, word_list, overlaps, theme_assignment, theme,
            theme_influence>>

---------------------------------------------------------------------------
(* The inputs the model draws from. *)

Letters == {"A", "B"}

Lengths == {1, 2}

\* the most words of an input, over its word list and its theme assignment
MaxWords == 3

SlotCounts == {1, 2, 3}

WordUniverse == UNION {[1..n -> Letters] : n \in Lengths}

\* the slot lists: up to three slots, the longer slots first
SlotLists ==
    {sl \in UNION {[1..n -> Lengths] : n \in SlotCounts} :
        \A i, j \in 1..Len(sl) : i < j => sl[i] >= sl[j]}

SlotIds(sl) == 1..Len(sl)

\* the unordered pairs of distinct slots, smaller position first
SlotPairs(sl) == {p \in SlotIds(sl) \X SlotIds(sl) : p[1] < p[2]}

Swap(p) == <<p[2], p[1]>>

\* the symmetric overlap maps over a slot list: for a pair that overlaps, one
\* index into each slot, and the mirrored entry for the swapped pair
OverlapMaps(sl) ==
    UNION {
        { [q \in P \cup {Swap(p) : p \in P} |->
              IF q \in P THEN g[q] ELSE Swap(g[Swap(q)])] :
          g \in {h \in [P -> (1..2) \X (1..2)] :
                    \A p \in P : h[p][1] <= sl[p[1]] /\ h[p][2] <= sl[p[2]]} }
        : P \in SUBSET SlotPairs(sl) }

WordLists == SUBSET WordUniverse

\* what solve() returns: None, or an assignment
None == [some |-> FALSE, value |-> <<>>]

Some(a) == [some |-> TRUE, value |-> a]

\* the empty dict
EmptyDict == <<>>

\* no call observed yet
NoCall == [op |-> "none"]

\* no theme manager: the solver and the grid are used on their own
NoTheme ==
    /\ description = None
    /\ theme_words = <<>>
    /\ word_scores = EmptyDict
    /\ ever_scored = {}
    /\ outcome = NoCall

\* the theme assignments over a slot list; lists of three slots are drawn
\* without one
ThemeAssignments(sl) ==
    IF Len(sl) \in {1, 2}
    THEN UNION {[P -> WordUniverse] : P \in SUBSET SlotIds(sl)}
    ELSE {EmptyDict}

---------------------------------------------------------------------------
(* utils.words_by_length and the constructor. *)

\* length -> set of the words of that length; a length no word has is no key
words_by_length(words) ==
    [n \in {Len(w) : w \in words} |-> {w \in words : Len(w) = n}]

\* node consistency with <= for ==: every word that fits in the slot
InitializeDomainsUpTo(sl, words_by_len) ==
    [s \in SlotIds(sl) |->
        UNION {words_by_len[n] : n \in {m \in DOMAIN words_by_len : m <= sl[s]}}]

\* a slot with no word of its length falling back on the whole dictionary
InitializeDomainsFallback(sl, words_by_len) ==
    [s \in SlotIds(sl) |->
        IF sl[s] \in DOMAIN words_by_len
        THEN words_by_len[sl[s]]
        ELSE UNION {words_by_len[n] : n \in DOMAIN words_by_len}]

\* node consistency: the words of the slot's length, or the empty set
_initialize_domains(sl, words_by_len) ==
    [s \in SlotIds(sl) |->
        IF sl[s] \in DOMAIN words_by_len THEN words_by_len[sl[s]] ELSE {}]

\* theme_word[idx1] raises IndexError when the pinned word is too short for an
\* overlap with a slot that is not pinned
ApplyThemeRaises(sl, ov, ta) ==
    \E slot \in DOMAIN ta : \E other_slot \in SlotIds(sl) :
        /\ other_slot \notin DOMAIN ta
        /\ <<slot, other_slot>> \in DOMAIN ov
        /\ ov[<<slot, other_slot>>][1] > Len(ta[slot])

\* pinning with the theme word added to the domain instead of replacing it
ApplyThemeNoLock(sl, ov, ta, doms) ==
    [s \in SlotIds(sl) |->
        IF s \in DOMAIN ta
        THEN doms[s] \cup {ta[s]}
        ELSE {w \in doms[s] :
                \A slot \in DOMAIN ta :
                    <<slot, s>> \in DOMAIN ov =>
                        w[ov[<<slot, s>>][2]] = ta[slot][ov[<<slot, s>>][1]]}]

\* pinning that locks the pinned slots and leaves the other domains alone
ApplyThemeNoFilter(sl, ov, ta, doms) ==
    [s \in SlotIds(sl) |-> IF s \in DOMAIN ta THEN {ta[s]} ELSE doms[s]]

\* a pinned slot keeps only its word; a slot that is not pinned keeps the words
\* that carry, at the shared index, the letter of every pinned slot it overlaps
_apply_theme_assignment(sl, ov, ta, doms) ==
    [s \in SlotIds(sl) |->
        IF s \in DOMAIN ta
        THEN {ta[s]}
        ELSE {w \in doms[s] :
                \A slot \in DOMAIN ta :
                    <<slot, s>> \in DOMAIN ov =>
                        w[ov[<<slot, s>>][2]] = ta[slot][ov[<<slot, s>>][1]]}]

\* self.domains when __init__ is done
ConstructedDomains(sl, words, ov, ta) ==
    LET doms == _initialize_domains(sl, words_by_length(words))
    IN  IF DOMAIN ta # {} THEN _apply_theme_assignment(sl, ov, ta, doms) ELSE doms

\* the solver's own state before __init__ has run
Constructing ==
    /\ pc = "new"
    /\ domains = <<>>
    /\ queue = <<>>
    /\ ac3_result = "unset"
    /\ assignment = EmptyDict
    /\ stack = <<>>
    /\ backtrack_count = 0
    /\ returned = <<>>
    /\ printed = <<>>

\* every input of the bounded universe, with the defaults theme=None and
\* theme_influence=1.0
Init ==
    /\ slots \in SlotLists
    /\ word_list \in WordLists
    /\ overlaps \in OverlapMaps(slots)
    /\ theme_assignment \in ThemeAssignments(slots)
    /\ Cardinality(word_list) + Cardinality(DOMAIN theme_assignment) <= MaxWords
    /\ theme = None
    /\ theme_influence = 1
    /\ Constructing
    /\ NoGrid
    /\ NoTheme

\* CrosswordSolver(slots, word_list, overlaps, theme_assignment=...)
Construct ==
    /\ pc = "new"
    /\ \/ /\ DOMAIN theme_assignment # {}
          /\ ApplyThemeRaises(slots, overlaps, theme_assignment)
          /\ pc' = "raised"
          /\ UNCHANGED domains
       \/ /\ ~(DOMAIN theme_assignment # {}
               /\ ApplyThemeRaises(slots, overlaps, theme_assignment))
          /\ domains' = ConstructedDomains(slots, word_list, overlaps,
                                           theme_assignment)
          /\ pc' = "ready"
    /\ UNCHANGED <<grid_vars, theme_vars, outcome, inputs,
                   queue, ac3_result, assignment, stack,
                   backtrack_count, returned, printed>>

\* the keys of the overlap map in the order calculate_overlaps inserts them:
\* for each pair of slots in slot-list order, (slot1, slot2) then (slot2, slot1)
OverlapKeys(sl, ov) ==
    LET n == Len(sl)
        RECURSIVE row(_, _)
        row(i, j) ==
            IF j > n THEN <<>>
            ELSE (IF <<i, j>> \in DOMAIN ov THEN << <<i, j>>, <<j, i>> >> ELSE <<>>)
                 \o row(i, j + 1)
        RECURSIVE rows(_)
        rows(i) == IF i > n THEN <<>> ELSE row(i, i + 1) \o rows(i + 1)
    IN  rows(1)

\* one closing line for both ways of failing
ClosingLineOneFailure(ac3_ok, found) ==
    IF ac3_ok /\ found THEN "Solution found" ELSE "No solution found"

\* the last line solve() prints: "AC-3 failed - puzzle has no solution",
\* "Solution found after n backtracks" or "No solution found after n backtracks"
closing_line(ac3_ok, found) ==
    IF ~ac3_ok THEN "AC-3 failed"
    ELSE IF found THEN "Solution found" ELSE "No solution found"

\* solve() starting over from the domains by length, theme pins forgotten
SolveResetting ==
    /\ pc = "ready"
    /\ queue' = OverlapKeys(slots, overlaps)
    /\ ac3_result' = "running"
    /\ returned' = IF Len(returned) = 2 THEN Tail(returned) ELSE returned
    /\ printed' = IF Len(printed) = 2 THEN Tail(printed) ELSE printed
    /\ domains' = _initialize_domains(slots, words_by_length(word_list))
    /\ pc' = "ac3"
    /\ UNCHANGED <<grid_vars, theme_vars, outcome, inputs,
                   assignment, stack, backtrack_count>>

\* solve() calls ac3(), whose queue starts as list(self.overlaps.keys())
Solve ==
    /\ pc = "ready"
    /\ queue' = OverlapKeys(slots, overlaps)
    /\ ac3_result' = "running"
    /\ returned' = IF Len(returned) = 2 THEN Tail(returned) ELSE returned
    /\ printed' = IF Len(printed) = 2 THEN Tail(printed) ELSE printed
    /\ pc' = "ac3"
    /\ UNCHANGED <<grid_vars, theme_vars, outcome, inputs,
                   domains, assignment, stack, backtrack_count>>

---------------------------------------------------------------------------
(* AC-3. *)

\* revise that keeps a word only if it agrees with every word of slot2
ToRemoveUnlessAll(doms, ov, slot1, slot2) ==
    {word1 \in doms[slot1] :
        \E word2 \in doms[slot2] :
              word1[ov[<<slot1, slot2>>][1]] # word2[ov[<<slot1, slot2>>][2]]}

\* the words of slot1 with no compatible word in the domain of slot2
to_remove(doms, ov, slot1, slot2) ==
    {word1 \in doms[slot1] :
        ~ \E word2 \in doms[slot2] :
              word1[ov[<<slot1, slot2>>][1]] = word2[ov[<<slot1, slot2>>][2]]}

\* _revise returning True for every arc of the overlap map, a word removed or
\* not
RevisedAlways(doms, ov, slot1, slot2) == <<slot1, slot2>> \in DOMAIN ov

\* the return value of _revise
revised(doms, ov, slot1, slot2) ==
    /\ <<slot1, slot2>> \in DOMAIN ov
    /\ to_remove(doms, ov, slot1, slot2) # {}

\* the slots of one length holding one set, as they would without the copy
SameSetByLength(s, t) == slots[s] = slots[t]

\* the domains of two slots are one set object: never for two slots, since
\* _initialize_domains gives each slot a copy of the words of its length
same_set(s, t) == s = t

\* self.domains after _revise(slot1, slot2): the set that is the domain of
\* slot1 is reduced in place
_revise(doms, ov, slot1, slot2) ==
    IF <<slot1, slot2>> \notin DOMAIN ov
    THEN doms
    ELSE [s \in DOMAIN doms |->
             IF same_set(s, slot1)
             THEN doms[s] \ to_remove(doms, ov, slot1, slot2)
             ELSE doms[s]]

\* word1[idx1] == word2[idx2] raises IndexError when a word is shorter than the
\* overlap index (only a pinned word can be: its domain is a single word)
ReviseRaises(doms, ov, slot1, slot2) ==
    /\ <<slot1, slot2>> \in DOMAIN ov
    /\ \E word1 \in doms[slot1] : \E word2 \in doms[slot2] :
          \/ ov[<<slot1, slot2>>][1] > Len(word1)
          \/ ov[<<slot1, slot2>>][2] > Len(word2)

\* re-enqueueing that appends the arcs out of slot1 instead of the arcs into it
NeighboursOutward(sl, ov, slot1, slot2) ==
    LET from(k) == IF k # slot1 /\ k # slot2 /\ <<k, slot1>> \in DOMAIN ov
                   THEN <<<<slot1, k>>>> ELSE <<>>
        RECURSIVE upto(_)
        upto(k) == IF k = 0 THEN <<>> ELSE upto(k - 1) \o from(k)
    IN  upto(Len(sl))

\* the arcs (slot, slot1) appended after slot1 shrank, in slot-list order
Neighbours(sl, ov, slot1, slot2) ==
    LET from(k) == IF k # slot1 /\ k # slot2 /\ <<k, slot1>> \in DOMAIN ov
                   THEN <<<<k, slot1>>>> ELSE <<>>
        RECURSIVE upto(_)
        upto(k) == IF k = 0 THEN <<>> ELSE upto(k - 1) \o from(k)
    IN  upto(Len(sl))

\* ac3 going on when the revised domain has no word left
EmptiedNever(doms, slot1) == FALSE

\* `if not self.domains[slot1]` after a revision that removed a word
emptied(doms, slot1) == doms[slot1] = {}

\* solve going on to the search whatever ac3 returned
SolveIgnoresAc3(ok) == "call"

\* solve after ac3(): `if not self.ac3(): return None`, else the search starts
solve_after_ac3(ok) == IF ok THEN "call" ELSE "ready"

\* one turn of the while loop of ac3: pop an arc, revise, and either fail on
\* an empty domain, append the arcs into slot1, or go on
Ac3Step ==
    /\ pc = "ac3"
    /\ queue # <<>>
    /\ LET slot1 == Head(queue)[1]
           slot2 == Head(queue)[2]
       IN  IF ReviseRaises(domains, overlaps, slot1, slot2)
           THEN /\ pc' = "raised"
                /\ UNCHANGED <<domains, queue, ac3_result, returned, printed>>
           ELSE /\ domains' = _revise(domains, overlaps, slot1, slot2)
                /\ IF revised(domains, overlaps, slot1, slot2)
                   THEN IF emptied(domains', slot1)
                        THEN \* ac3 returns False and solve returns None
                             /\ queue' = <<>>
                             /\ ac3_result' = "False"
                             /\ pc' = solve_after_ac3(FALSE)
                             /\ returned' = IF pc' = "ready"
                                            THEN Append(returned, None)
                                            ELSE returned
                             /\ printed' = IF pc' = "ready"
                                           THEN Append(printed,
                                                       closing_line(FALSE, FALSE))
                                           ELSE printed
                        ELSE /\ queue' = Tail(queue) \o
                                    Neighbours(slots, overlaps, slot1, slot2)
                             /\ UNCHANGED <<pc, ac3_result, returned, printed>>
                   ELSE /\ queue' = Tail(queue)
                        /\ UNCHANGED <<pc, ac3_result, returned, printed>>
    /\ UNCHANGED <<grid_vars, theme_vars, outcome, inputs,
                   assignment, stack, backtrack_count>>

\* ac3() returning True with the counter of the search left as it stands
Ac3DoneNoReset ==
    /\ pc = "ac3"
    /\ queue = <<>>
    /\ ac3_result' = "True"
    /\ assignment' = EmptyDict
    /\ stack' = <<>>
    /\ pc' = solve_after_ac3(TRUE)
    /\ UNCHANGED <<grid_vars, theme_vars, outcome, inputs,
                   domains, queue, returned, printed, backtrack_count>>

\* the queue is empty: ac3 returns True and solve starts the search
Ac3Done ==
    /\ pc = "ac3"
    /\ queue = <<>>
    /\ ac3_result' = "True"
    /\ backtrack_count' = 0
    /\ assignment' = EmptyDict
    /\ stack' = <<>>
    /\ pc' = solve_after_ac3(TRUE)
    /\ UNCHANGED <<grid_vars, theme_vars, outcome, inputs,
                   domains, queue, returned, printed>>

---------------------------------------------------------------------------
(* The backtracking search. *)

\* the consistency check returning True from inside its loop: only the first
\* assigned overlapping slot is compared
IsConsistentFirstOnly(sl, ov, slot, word, asg) ==
    LET others == {o \in SlotIds(sl) :
                      o \in DOMAIN asg /\ <<slot, o>> \in DOMAIN ov}
        first == CHOOSE o \in others : \A q \in others : o <= q
    IN  others # {} =>
            word[ov[<<slot, first>>][1]] = asg[first][ov[<<slot, first>>][2]]

\* whether word in slot agrees with every assigned slot that overlaps it
_is_consistent(sl, ov, slot, word, asg) ==
    \A other_slot \in SlotIds(sl) :
        (other_slot \in DOMAIN asg /\ <<slot, other_slot>> \in DOMAIN ov) =>
            word[ov[<<slot, other_slot>>][1]] =
                asg[other_slot][ov[<<slot, other_slot>>][2]]

\* the priority counting every word of the domain, consistent or not
SlotPriorityDomainSize(sl, ov, doms, slot, asg) ==
    << Cardinality(doms[slot]),
       0 - Cardinality({s \in SlotIds(sl) : <<slot, s>> \in DOMAIN ov}) >>

\* slot_priority: (remaining valid words, -number of overlaps)
slot_priority(sl, ov, doms, slot, asg) ==
    << Cardinality({w \in doms[slot] : _is_consistent(sl, ov, slot, w, asg)}),
       0 - Cardinality({s \in SlotIds(sl) : <<slot, s>> \in DOMAIN ov}) >>

\* tuple comparison p < q
TupleLess(p, q) == p[1] < q[1] \/ (p[1] = q[1] /\ p[2] < q[2])

\* min(unassigned, key=slot_priority): the first slot of least priority
_select_unassigned_slot(sl, ov, doms, asg) ==
    LET unassigned == SlotIds(sl) \ DOMAIN asg
        key(s) == slot_priority(sl, ov, doms, s, asg)
    IN  CHOOSE s \in unassigned :
            \A t \in unassigned :
                \/ TupleLess(key(s), key(t))
                \/ key(s) = key(t) /\ s <= t

\* how many words of the domains of unassigned overlapping slots disagree with
\* word at the shared index
count_conflicts(sl, ov, doms, slot, word, asg) ==
    LET eliminated(neighbor) ==
            IF neighbor \in DOMAIN asg \/ <<slot, neighbor>> \notin DOMAIN ov
            THEN 0
            ELSE Cardinality({neighbor_word \in doms[neighbor] :
                     word[ov[<<slot, neighbor>>][1]] #
                         neighbor_word[ov[<<slot, neighbor>>][2]]})
        RECURSIVE sum(_)
        sum(k) == IF k = 0 THEN 0 ELSE sum(k - 1) + eliminated(k)
    IN  sum(Len(sl))

\* the ordering cut down to the words of least count_conflicts
OrderDomainValuesLeastOnly(sl, ov, doms, slot, asg) ==
    LET ok == {v \in doms[slot] : _is_consistent(sl, ov, slot, v, asg)}
        least == {v \in ok : \A u \in ok :
                     count_conflicts(sl, ov, doms, slot, v, asg) <=
                         count_conflicts(sl, ov, doms, slot, u, asg)}
    IN  [w \in least |-> count_conflicts(sl, ov, doms, slot, w, asg)]

\* the ordering keeping, under a theme, only the words the theme scores
OrderDomainValuesScoredOnly(sl, ov, doms, slot, asg) ==
    LET ok == {v \in doms[slot] : _is_consistent(sl, ov, slot, v, asg)}
        scored == {v \in ok : v \in DOMAIN theme.value}
    IN  [w \in (IF theme.some THEN scored ELSE ok) |->
            count_conflicts(sl, ov, doms, slot, w, asg)]

\* _order_domain_values: the consistent words of the domain with their sort
\* key, count_conflicts.  The sorted list is kept as this map and the set of
\* its words not yet taken: the sort is stable, so words of equal key stay in
\* the order the set enumerated them, which is any order, and the next word
\* of the list is any word of least key among those not yet taken.
_order_domain_values(sl, ov, doms, slot, asg) ==
    [w \in {v \in doms[slot] : _is_consistent(sl, ov, slot, v, asg)} |->
        count_conflicts(sl, ov, doms, slot, w, asg)]

\* the words that can come next in the sorted list
NextWords(frame) ==
    {w \in frame.words : \A v \in frame.words : frame.key[w] <= frame.key[v]}

\* the undo left out: the slot stays assigned
DelNothing(asg, slot) == asg

\* del assignment[slot]
Del(asg, slot) == [s \in DOMAIN asg \ {slot} |-> asg[s]]

\* assignment[slot] = word
Put(asg, slot, word) ==
    [s \in DOMAIN asg \cup {slot} |-> IF s = slot THEN word ELSE asg[s]]

\* the completeness test off by one
IsCompleteOffByOne(sl, asg) == Cardinality(DOMAIN asg) >= Len(sl) - 1

\* len(assignment) == len(self.slots)
is_complete(sl, asg) == Cardinality(DOMAIN asg) = Len(sl)

\* backtrack(assignment) is entered: a complete assignment is returned through
\* every frame to solve; otherwise a slot is selected and its values ordered.
\* A frame also remembers, as entry, the assignment it was called with.
Call ==
    /\ pc = "call"
    /\ backtrack_count' = backtrack_count + 1
    /\ IF is_complete(slots, assignment)
       THEN /\ returned' = Append(returned, Some(assignment))
            /\ printed' = Append(printed, closing_line(TRUE, TRUE))
            /\ stack' = <<>>
            /\ pc' = "ready"
       ELSE /\ LET slot == _select_unassigned_slot(slots, overlaps, domains,
                                                   assignment)
                    key == _order_domain_values(slots, overlaps, domains, slot,
                                                assignment)
                IN  stack' = Append(stack,
                        [slot |-> slot, words |-> DOMAIN key, key |-> key,
                         entry |-> assignment])
            /\ pc' = "loop"
            /\ UNCHANGED <<returned, printed>>
    /\ UNCHANGED <<grid_vars, theme_vars, outcome, inputs,
                   domains, queue, ac3_result, assignment>>

\* the loop step that leaves the word it takes in the list
TryKeeping ==
    /\ pc = "loop"
    /\ stack # <<>>
    /\ LET frame == stack[Len(stack)]
       IN  \E word \in NextWords(frame) :
               /\ UNCHANGED stack
               /\ IF _is_consistent(slots, overlaps, frame.slot, word,
                                    assignment)
                  THEN /\ assignment' = Put(assignment, frame.slot, word)
                       /\ pc' = "call"
                  ELSE UNCHANGED <<assignment, pc>>
    /\ UNCHANGED <<grid_vars, theme_vars, outcome, inputs,
                   domains, queue, ac3_result, backtrack_count,
                   returned, printed>>

\* the loop step with forward checking: the domain of the slot just assigned
\* is narrowed to the word taken
TryNarrowing ==
    /\ pc = "loop"
    /\ stack # <<>>
    /\ LET frame == stack[Len(stack)]
       IN  \E word \in NextWords(frame) :
               /\ stack' = [stack EXCEPT ![Len(stack)].words = @ \ {word}]
               /\ IF _is_consistent(slots, overlaps, frame.slot, word,
                                    assignment)
                  THEN /\ assignment' = Put(assignment, frame.slot, word)
                       /\ domains' = [domains EXCEPT ![frame.slot] = {word}]
                       /\ pc' = "call"
                  ELSE UNCHANGED <<assignment, pc, domains>>
    /\ UNCHANGED <<grid_vars, theme_vars, outcome, inputs,
                   queue, ac3_result, backtrack_count,
                   returned, printed>>

\* the for loop of the innermost frame takes its next word and recurses
Try ==
    /\ pc = "loop"
    /\ stack # <<>>
    /\ LET frame == stack[Len(stack)]
       IN  \E word \in NextWords(frame) :
               /\ stack' = [stack EXCEPT ![Len(stack)].words = @ \ {word}]
               /\ IF _is_consistent(slots, overlaps, frame.slot, word,
                                    assignment)
                  THEN /\ assignment' = Put(assignment, frame.slot, word)
                       /\ pc' = "call"
                  ELSE UNCHANGED <<assignment, pc>>
    /\ UNCHANGED <<grid_vars, theme_vars, outcome, inputs,
                   domains, queue, ac3_result, backtrack_count,
                   returned, printed>>

\* the for loop of the innermost frame is exhausted: backtrack returns None, to
\* the frame below, which undoes its assignment, or to solve, which returns None
Fail ==
    /\ pc = "loop"
    /\ stack # <<>>
    /\ stack[Len(stack)].words = {}
    /\ stack' = SubSeq(stack, 1, Len(stack) - 1)
    /\ IF Len(stack) = 1
       THEN /\ returned' = Append(returned, None)
            /\ printed' = Append(printed, closing_line(TRUE, FALSE))
            /\ pc' = "ready"
            /\ UNCHANGED assignment
       ELSE /\ assignment' = Del(assignment, stack[Len(stack) - 1].slot)
            /\ UNCHANGED <<pc, returned, printed>>
    /\ UNCHANGED <<grid_vars, theme_vars, outcome, inputs,
                   domains, queue, ac3_result, backtrack_count>>

---------------------------------------------------------------------------
(* What the claims are stated with. *)

\* the letters of two words at two indices exist and are equal
Agree(w1, i, w2, j) ==
    i \in 1..Len(w1) /\ j \in 1..Len(w2) /\ w1[i] = w2[j]

\* the assignments among the last two results of solve()
ReturnedSolutions == {returned[k].value : k \in {i \in 1..Len(returned) : returned[i].some}}

\* one of the last two results of solve() is None
ReturnedNone == \E k \in 1..Len(returned) : ~returned[k].some

\* self.domains as the constructor left them
domains0 == ConstructedDomains(slots, word_list, overlaps, theme_assignment)

\* the constructor has returned and solve() has not been called yet
JustConstructed == pc = "ready" /\ returned = <<>>

\* the complete assignments of words of doms that agree on every overlap
ConsistentAssignments(doms) ==
    {a \in [SlotIds(slots) -> UNION {doms[s] : s \in SlotIds(slots)}] :
        /\ \A s \in SlotIds(slots) : a[s] \in doms[s]
        /\ \A p \in DOMAIN overlaps :
              Agree(a[p[1]], overlaps[p][1], a[p[2]], overlaps[p][2])}

\* the solutions of the puzzle: dictionary words of the slots' lengths that
\* agree on every overlap and keep every pinned word
TrueSolutions ==
    {a \in [SlotIds(slots) -> word_list] :
        /\ \A s \in SlotIds(slots) : Len(a[s]) = slots[s]
        /\ \A p \in DOMAIN overlaps :
              Agree(a[p[1]], overlaps[p][1], a[p[2]], overlaps[p][2])
        /\ \A s \in DOMAIN theme_assignment : a[s] = theme_assignment[s]}

\* every word left in a domain has a partner across every arc
ArcConsistent(doms) ==
    \A p \in DOMAIN overlaps : \A w \in doms[p[1]] : \E w2 \in doms[p[2]] :
        Agree(w, overlaps[p][1], w2, overlaps[p][2])

\* the search abandoned a branch: more calls of backtrack than a straight
\* descent makes
Backtracked == backtrack_count > Len(slots) + 1

---------------------------------------------------------------------------
(* The claims. *)

\* C1: in every assignment solve() returns, the words of every overlapping
\* pair of slots carry the same letter at the shared indices.
C1_OverlapsAgree ==
    \A sol \in ReturnedSolutions : \A p \in DOMAIN overlaps :
        Agree(sol[p[1]], overlaps[p][1], sol[p[2]], overlaps[p][2])

\* a solution of three slots, two of which overlap the third, found after a
\* branch was abandoned
C1_Witness ==
    /\ pc = "ready"
    /\ Len(returned) = 1
    /\ returned[1].some
    /\ Len(slots) = 3
    /\ Cardinality(DOMAIN overlaps) >= 4
    /\ Backtracked

\* C2: in every assignment solve() returns, every slot's word has exactly
\* slot.length letters, a pinned theme assignment or not.
C2_LengthsMatch ==
    \A sol \in ReturnedSolutions : \A s \in DOMAIN sol : Len(sol[s]) = slots[s]

\* C3: solve() returns None or an assignment whose keys are exactly the slots
\* of the slot list, also after abandoned branches.
C3_CompleteOrNone ==
    \A k \in 1..Len(returned) :
        returned[k].some => DOMAIN returned[k].value = SlotIds(slots)

\* a solution returned after a branch of the search was abandoned
C3_Witness ==
    /\ pc = "ready"
    /\ Len(returned) = 1
    /\ returned[1].some
    /\ Backtracked

\* C4: solve() returns None only if the puzzle has no solution.
C4_NoneOnlyIfUnsolvable == ReturnedNone => TrueSolutions = {}

\* a puzzle that has a solution, which solve() returns after abandoning a
\* branch
C4_Witness ==
    /\ pc = "ready"
    /\ Len(returned) = 1
    /\ TrueSolutions # {}
    /\ returned[1].some
    /\ Backtracked

\* C5: once ac3() has returned True the domains are arc consistent, and they
\* stay so while the search runs.
C5_ArcConsistentAfterAc3 ==
    (ac3_result = "True" /\ pc \in {"call", "loop", "ready"}) => ArcConsistent(domains)

\* ac3() returned True after pruning a domain
C5_Witness ==
    /\ pc = "call"
    /\ ac3_result = "True"
    /\ domains # domains0
    /\ Cardinality(DOMAIN overlaps) >= 4

\* C6: the words of an assignment that is complete, drawn from the constructed
\* domains and consistent on every overlap are never pruned, and ac3() does
\* not return False when there is such an assignment.
C6_Ac3KeepsSolutions ==
    pc \in {"ac3", "call", "loop", "ready"} =>
        \A a \in ConsistentAssignments(domains0) :
            /\ \A s \in SlotIds(slots) : a[s] \in domains[s]
            /\ ac3_result # "False"

\* ac3() returned True having pruned words, and a consistent assignment exists
C6_Witness ==
    /\ ac3_result = "True"
    /\ domains # domains0
    /\ ConsistentAssignments(domains0) # {}

\* C7: a returned solution maps every pinned slot to its pinned word.
C7_PinnedKept ==
    \A sol \in ReturnedSolutions : \A s \in DOMAIN theme_assignment :
        s \in DOMAIN sol /\ sol[s] = theme_assignment[s]

\* a solution that keeps a pinned word although the dictionary has another
\* word of the slot's length
C7_Witness ==
    /\ ReturnedSolutions # {}
    /\ \E s \in DOMAIN theme_assignment : \E w \in word_list :
          Len(w) = slots[s] /\ w # theme_assignment[s]

\* C8 as stated: after construction every pinned slot's domain is its pinned
\* word, and every slot overlapping a pinned slot, pinned itself or not, holds
\* only words with the pinned letter at the shared index.
C8_AllOverlappingFiltered ==
    JustConstructed =>
        /\ \A s \in DOMAIN theme_assignment : domains[s] = {theme_assignment[s]}
        /\ \A p \in DOMAIN overlaps :
              p[1] \in DOMAIN theme_assignment =>
                  \A w \in domains[p[2]] :
                      Agree(theme_assignment[p[1]], overlaps[p][1],
                            w, overlaps[p][2])

\* C8 amended: the same for the overlapping slots that are not pinned.
C8_UnpinnedOverlappingFiltered ==
    JustConstructed =>
        /\ \A s \in DOMAIN theme_assignment : domains[s] = {theme_assignment[s]}
        /\ \A p \in DOMAIN overlaps :
              (p[1] \in DOMAIN theme_assignment
                  /\ p[2] \notin DOMAIN theme_assignment) =>
                  \A w \in domains[p[2]] :
                      Agree(theme_assignment[p[1]], overlaps[p][1],
                            w, overlaps[p][2])

\* a slot that is not pinned lost some but not all of its words to the pinned
\* slot it overlaps
C8_Witness ==
    /\ JustConstructed
    /\ \E p \in DOMAIN overlaps :
          /\ p[1] \in DOMAIN theme_assignment
          /\ p[2] \notin DOMAIN theme_assignment
          /\ domains[p[2]] # {}
          /\ domains[p[2]] #
                 _initialize_domains(slots, words_by_length(word_list))[p[2]]

\* C9: every solve() of the same inputs returns the same result, whatever the
\* order in which words of equal cost are enumerated.
C9_Deterministic ==
    \A j, k \in 1..Len(returned) : returned[j] = returned[k]

\* C10: right after construction without pinning, every slot's domain is the
\* set of the dictionary words of the slot's length.
C10_NodeConsistency ==
    (JustConstructed /\ DOMAIN theme_assignment = {}) =>
        \A s \in SlotIds(slots) :
            domains[s] = {w \in word_list : Len(w) = slots[s]}

\* a solver whose dictionary has two words for one slot and none for another
C10_Witness ==
    /\ JustConstructed
    /\ DOMAIN theme_assignment = {}
    /\ \E s, t \in SlotIds(slots) :
          /\ domains[s] = {}
          /\ Cardinality(domains[t]) = 2

\* C11: while ac3 runs no slot is assigned and backtrack is not entered; the
\* search is entered only when ac3 has emptied its queue and returned True;
\* when ac3 returns False, solve returns None at once, with no assignment
\* made and backtrack_count as it was, and nothing runs until the next solve.
C11_ShortCircuit ==
    [][/\ (pc = "ac3" /\ queue # <<>>) =>
              UNCHANGED <<assignment, stack, backtrack_count>>
       /\ (pc = "ac3" /\ pc' \in {"call", "loop"}) =>
              (queue = <<>> /\ ac3_result' = "True")
       /\ (pc # "ac3" /\ pc' \in {"call", "loop"}) => pc \in {"call", "loop"}
       /\ (ac3_result # "False" /\ ac3_result' = "False") =>
              /\ returned' = Append(returned, None)
              /\ pc' = "ready"
              /\ UNCHANGED <<assignment, stack, backtrack_count>>
       /\ ac3_result = "False" =>
              (pc = "ready" /\ UNCHANGED <<assignment, stack, backtrack_count>>)
      ]_vars

\* ac3 returned False after revising more than one domain, and solve returned
\* None with backtrack never entered
C11_Witness ==
    /\ pc = "ready"
    /\ ac3_result = "False"
    /\ returned = <<None>>
    /\ backtrack_count = 0
    /\ Cardinality({s \in SlotIds(slots) : domains[s] # domains0[s]}) >= 2

\* C12 as stated: what solve() returns carries the reason of a failure: a
\* failure of AC-3 and an exhausted search never return the same result.
C12_ReturnCarriesReason ==
    \A j, k \in 1..Len(returned) :
        (~returned[j].some /\ ~returned[k].some /\ printed[j] # printed[k]) =>
            returned[j] # returned[k]

\* C12 amended: both failures return None; they differ in the closing line
\* printed and in backtrack_count, which is 0 after a failure of AC-3 and at
\* least 1 after an exhausted search.
C12_FailuresDifferInDiagnostics ==
    /\ \A k \in 1..Len(returned) :
          /\ returned[k].some <=> printed[k] = "Solution found"
          /\ ~returned[k].some => returned[k] = None
    /\ (pc = "ready" /\ returned # <<>>) =>
          /\ printed[Len(printed)] = "AC-3 failed" <=> ac3_result = "False"
          /\ printed[Len(printed)] = "AC-3 failed" => backtrack_count = 0
          /\ printed[Len(printed)] = "No solution found" => backtrack_count >= 1

\* a failure of AC-3 followed, on the same solver, by an exhausted search
C12_Witness ==
    /\ pc = "ready"
    /\ printed = <<"AC-3 failed", "No solution found">>
    /\ returned = <<None, None>>

\* the slots that are not pinned and have no dictionary word of their length
WordlessSlots ==
    {s \in SlotIds(slots) \ DOMAIN theme_assignment :
        ~ \E w \in word_list : Len(w) = slots[s]}

\* C13 as stated: a solver with a slot that has no dictionary word of its
\* length is never constructed: the constructor aborts.
C13_ConstructionRejected ==
    (\E s \in SlotIds(slots) : ~ \E w \in word_list : Len(w) = slots[s]) =>
        pc \in {"new", "raised"}

\* C13 amended: the constructor does not reject such a slot list: it yields
\* a solver in which the domain of the slot (when it is not pinned) is empty,
\* and solve() on that solver never returns an assignment.
C13_ConstructedWithEmptyDomain ==
    WordlessSlots # {} =>
        /\ DOMAIN theme_assignment = {} => pc # "raised"
        /\ pc \notin {"new", "raised"} => \A s \in WordlessSlots : domains[s] = {}
        /\ ReturnedSolutions = {}

\* solve() has returned None on a solver built with a slot that has no word
\* of its length and another slot that has some
C13_Witness ==
    /\ pc = "ready"
    /\ returned = <<None>>
    /\ WordlessSlots # {}
    /\ \E s \in SlotIds(slots) : domains0[s] # {}
    /\ DOMAIN theme_assignment = {}

\* the words of the domain of s that agree with every assigned overlapping slot
RemainingValues(s) ==
    {w \in domains[s] :
        \A t \in DOMAIN assignment :
            <<s, t>> \in DOMAIN overlaps =>
                Agree(w, overlaps[<<s, t>>][1], assignment[t], overlaps[<<s, t>>][2])}

\* the number of slots that overlap s
Degree(s) == Cardinality({t \in SlotIds(slots) : <<s, t>> \in DOMAIN overlaps})

\* C15: the slot the search has selected is unassigned, no unassigned slot
\* has fewer remaining values, and none with as few has more overlaps.
C15_MinimumRemainingValues ==
    (pc = "loop" /\ stack # <<>>) =>
        LET slot == stack[Len(stack)].slot
            unassigned == SlotIds(slots) \ DOMAIN assignment
        IN  /\ slot \in unassigned
            /\ \A t \in unassigned :
                  /\ Cardinality(RemainingValues(slot)) <=
                         Cardinality(RemainingValues(t))
                  /\ Cardinality(RemainingValues(slot)) =
                         Cardinality(RemainingValues(t)) =>
                             Degree(slot) >= Degree(t)

\* with a slot assigned, the search selects the later of two unassigned slots
\* of as many remaining values because it has more overlaps
C15_Witness ==
    /\ pc = "loop"
    /\ stack # <<>>
    /\ assignment # EmptyDict
    /\ LET slot == stack[Len(stack)].slot
       IN  \E t \in SlotIds(slots) \ DOMAIN assignment :
              /\ t < slot
              /\ Cardinality(RemainingValues(slot)) = Cardinality(RemainingValues(t))
              /\ Degree(slot) > Degree(t)

\* a turn of the loop of ac3 that revises the arc at the head of the queue
RevisionStep == pc = "ac3" /\ queue # <<>> /\ pc' # "raised"

\* C27: _revise(X, Y) removes from domains[X] exactly the words that agree with
\* no word of domains[Y] at the overlap indices, returns True exactly when it
\* removed a word, and leaves the domain of every other slot as it was, Y and
\* the slots of the length of X included.
C27_ReviseRemovesUnsupported ==
    [][RevisionStep =>
          LET X == Head(queue)[1]
              Y == Head(queue)[2]
              i == overlaps[<<X, Y>>][1]
              j == overlaps[<<X, Y>>][2]
          IN  /\ domains'[X] = {w \in domains[X] :
                                   \E v \in domains[Y] : Agree(w, i, v, j)}
              /\ revised(domains, overlaps, X, Y) <=> domains'[X] # domains[X]
              /\ \A s \in SlotIds(slots) : s # X => domains'[s] = domains[s]]_vars

\* with no pinned word, ac3 has removed from the domain of a slot a word that
\* another slot of the same length still has
C27_Witness ==
    /\ pc = "ac3"
    /\ theme_assignment = EmptyDict
    /\ \E X, s \in SlotIds(slots) :
          /\ s # X /\ slots[s] = slots[X]
          /\ domains[X] # {}
          /\ domains[s] \ domains[X] # {}

\* the arcs in a queue
Arcs(q) == {q[k] : k \in 1..Len(q)}

\* C28: whenever the arc (X, Y) taken from the queue shrinks domains[X] to a
\* set that is not empty, every arc (Z, X) of the overlap map with Z other
\* than X and Y is in the queue right after; when the revision changes
\* nothing, no arc is added to the queue.
C28_ReEnqueueRule ==
    [][RevisionStep =>
          LET X == Head(queue)[1]
              Y == Head(queue)[2]
          IN  /\ (domains'[X] # domains[X] /\ domains'[X] # {}) =>
                    \A Z \in SlotIds(slots) :
                        (Z # X /\ Z # Y /\ <<Z, X>> \in DOMAIN overlaps) =>
                            <<Z, X>> \in Arcs(queue')
              /\ domains' = domains => queue' = Tail(queue)]_vars

\* inside ac3, the queue ends with an arc that a shrunk domain put there
C28_Witness ==
    /\ pc = "ac3"
    /\ queue # <<>>
    /\ LET keys == OverlapKeys(slots, overlaps)
           last == queue[Len(queue)]
       IN  /\ last # keys[Len(keys)]
           /\ domains[last[2]] # {}
           /\ domains[last[2]] # domains0[last[2]]

\* C29 as claimed: ac3() returns True only if no domain is empty, so after a
\* successful AC-3 every slot has at least one candidate, a slot whose domain
\* was empty when ac3() started included.
C29_SuccessMeansNoEmptyDomain ==
    ac3_result = "True" => \A s \in SlotIds(slots) : domains[s] # {}

\* C29: if the domain of a slot becomes empty during ac3(), ac3() returns
\* False, and ac3() returns True only with the queue empty and the domains as
\* the revisions left them; so after a successful AC-3 every slot that had a
\* candidate when ac3() started has at least one.
C29_EmptiedDomainFailsAc3 ==
    [][pc = "ac3" =>
          /\ (\E s \in SlotIds(slots) : domains[s] # {} /\ domains'[s] = {}) =>
                ac3_result' = "False"
          /\ ac3_result' = "True" => (queue = <<>> /\ domains' = domains)]_vars

\* ac3 has returned False on emptying the domain of a slot that had words
\* after construction
C29_Witness ==
    /\ ac3_result = "False"
    /\ \E s \in SlotIds(slots) : domains[s] = {} /\ domains0[s] # {}
    /\ \E s \in SlotIds(slots) : domains[s] # {}

\* C30: in every state of the backtracking search the partial assignment is
\* pairwise consistent, the words of two assigned overlapping slots carrying
\* the same letter at the shared indices, and every assigned word is in the
\* domain AC-3 left for its slot.
C30_PartialAssignmentConsistent ==
    pc \in {"call", "loop"} =>
        /\ \A p \in DOMAIN overlaps :
              (p[1] \in DOMAIN assignment /\ p[2] \in DOMAIN assignment) =>
                  Agree(assignment[p[1]], overlaps[p][1],
                        assignment[p[2]], overlaps[p][2])
        /\ \A s \in DOMAIN assignment : assignment[s] \in domains[s]

\* the search is inside its third frame with two overlapping slots assigned,
\* the third still open, and an outer frame has words left to try
C30_Witness ==
    /\ pc = "loop"
    /\ Len(slots) = 3
    /\ Len(stack) = 3
    /\ Cardinality(DOMAIN assignment) = 2
    /\ \E p \in DOMAIN overlaps :
          p[1] \in DOMAIN assignment /\ p[2] \in DOMAIN assignment
    /\ \E k \in 1..2 : stack[k].words # {}

\* the innermost call of backtrack has run out of words and is about to
\* return None
ReturningNone ==
    pc = "loop" /\ stack # <<>> /\ stack[Len(stack)].words = {}

\* C31: whenever a call backtrack(assignment) returns None, the assignment is
\* exactly the mapping the call was entered with.
C31_FailedCallRestoresAssignment ==
    ReturningNone => assignment = stack[Len(stack)].entry

\* a nested call returns None after every word it recursed on has failed
C31_Witness ==
    /\ ReturningNone
    /\ Len(stack) >= 2
    /\ DOMAIN stack[Len(stack)].key # {}

\* C32: from the moment ac3() returns True until solve() returns, no step of
\* the search changes the domain of any slot.
C32_SearchKeepsDomains ==
    [][(pc \in {"call", "loop"} \/ (pc = "ac3" /\ pc' = "call"))
           => domains' = domains]_vars

\* the search has assigned a slot whose domain still holds another word, and
\* has come back from a failed call
C32_Witness ==
    /\ pc = "loop"
    /\ Backtracked
    /\ \E s \in DOMAIN assignment : Cardinality(domains[s]) >= 2

\* C39: in every state reached during ac3() and solve(), repeated solve()
\* calls included, the domain of each slot is a subset of what the constructor
\* left there.
C39_DomainsOnlyShrink ==
    pc \in {"ready", "ac3", "call", "loop"} =>
        /\ DOMAIN domains = DOMAIN domains0
        /\ \A s \in DOMAIN domains : domains[s] \subseteq domains0[s]

\* a later solve() is running on domains an earlier one has pruned
C39_Witness ==
    /\ pc \in {"ac3", "call", "loop"}
    /\ returned # <<>>
    /\ \E s \in DOMAIN domains : domains[s] # domains0[s]

\* C33: when AC-3 has succeeded, backtrack_count is reset before the search,
\* grows by one at every invocation of backtrack and at no other step, and so
\* counts the invocations of this solve() alone; it is at least 1 when the
\* solve() returns.
C33_CountsInvocationsOfThisSolve ==
    [][/\ (pc = "ac3" /\ pc' = "call") => backtrack_count' = 0
       /\ pc = "call" => backtrack_count' = backtrack_count + 1
       /\ pc = "loop" => backtrack_count' = backtrack_count
       /\ (pc \in {"call", "loop"} /\ pc' = "ready") => backtrack_count' >= 1
      ]_vars

\* a second solve() in which AC-3 succeeded has returned after a search that
\* came back from failed calls
C33_Witness ==
    /\ pc = "ready"
    /\ Len(returned) = 2
    /\ ac3_result = "True"
    /\ Backtracked

Next ==
    \/ Construct
    \/ Solve
    \/ Ac3Step
    \/ Ac3Done
    \/ Call
    \/ Try
    \/ Fail

Spec == Init /\ [][Next]_vars

---------------------------------------------------------------------------
(* The solver with a theme: word scores and theme_influence. *)

\* the most words a theme scores
MaxScored == 1

\* the scores a theme gives (0 is the score of a word it does not hold)
ScoreValues == {50, 100}

\* the values of theme_influence
Influences == {0, 1}

\* the words of the themed puzzles: two letters
ThemedWords == [1..2 -> Letters]

\* None, or the word_scores of a ThemeManager
Themes ==
    {None} \cup
    {Some(sc) : sc \in UNION {[ws -> ScoreValues] :
                    ws \in {x \in SUBSET ThemedWords : Cardinality(x) <= MaxScored}}}

\* ThemeManager.get_word_score: the score of the word, 0 when it has none
get_word_score(th, word) ==
    IF word \in DOMAIN th.value THEN th.value[word] ELSE 0

\* score_word of the first definition of _order_domain_values, times 100:
\* conflicts - (theme_score / 100.0) * conflicts * theme_influence
score_word(sl, ov, doms, slot, word, asg, th, infl) ==
    LET conflicts == count_conflicts(sl, ov, doms, slot, word, asg)
        theme_score == IF th.some THEN get_word_score(th, word) ELSE 0
    IN  100 * conflicts - theme_score * conflicts * infl

\* two slots of two letters, any overlaps, any pinned words, and any theme and
\* theme_influence
InitTheme ==
    /\ slots = <<2, 2>>
    /\ word_list \in {x \in SUBSET ThemedWords : Cardinality(x) <= MaxWords}
    /\ overlaps \in OverlapMaps(slots)
    /\ theme_assignment \in ThemeAssignments(slots)
    /\ Cardinality(word_list) + Cardinality(DOMAIN theme_assignment) <= MaxWords
    /\ theme \in Themes
    /\ theme_influence \in Influences
    /\ Constructing
    /\ NoGrid
    /\ NoTheme

SpecTheme == InitTheme /\ [][Next]_vars

\* the search takes a word from the ordered values of the innermost frame
TryStep == pc = "loop" /\ stack # <<>> /\ Len(stack') >= Len(stack)

\* the word that step takes
TriedWord ==
    CHOOSE w \in stack[Len(stack)].words : w \notin stack'[Len(stack)].words

\* C14: every word the search tries has the least cost, conflicts minus
\* theme_score/100 * conflicts * theme_influence, among the words of its slot
\* not yet tried: with a theme and theme_influence > 0 a scored word comes
\* before an unscored word of equal conflict count.
C14_ThemeAwareOrder ==
    [][TryStep =>
          LET frame == stack[Len(stack)]
              cost(w) == score_word(slots, overlaps, domains, frame.slot, w,
                                    assignment, theme, theme_influence)
          IN  \A v \in frame.words : cost(TriedWord) <= cost(v)]_vars
\* C16: whether solve() returns a solution is decided by the slots, the
\* dictionary, the overlaps and the pinned words alone: it returns one exactly
\* when the constructed domains hold a complete assignment that agrees on
\* every overlap, whatever the theme scores and theme_influence are.
C16_ThemeAdvisoryOnly ==
    \A k \in 1..Len(returned) :
        returned[k].some <=> ConsistentAssignments(domains0) # {}

\* a solution returned on a solver whose theme scores a dictionary word that
\* the solution does not use, with theme_influence > 0
C16_Witness ==
    /\ pc = "ready"
    /\ returned # <<>>
    /\ returned[1].some
    /\ theme.some
    /\ theme_influence > 0
    /\ \E w \in DOMAIN theme.value \cap word_list :
          \A s \in SlotIds(slots) : returned[1].value[s] # w

---------------------------------------------------------------------------
(* The grid: CrosswordGrid and Slot of src/src/grid.py.  Rows, columns and  *)
(* overlap indices are 0-based as in the source; the cells of a slot are a  *)
(* sequence whose k-th element is the source's cells[k-1].                  *)

\* the most cells of a grid that are not empty
MaxMarks == 2

BLACK_SQUARE == "#"

\* Python's None in a cell: an empty white square
NoneCell == "None"

\* what a cell holds: None, '#' or a character
CellValues == {NoneCell, BLACK_SQUARE, "A"}

\* the (width, height) of the grids
Dimensions == {<<4, 4>>, <<5, 5>>, <<7, 4>>, <<4, 7>>}

\* the (row, col) of a grid
Cells(w, h) == (0..(h - 1)) \X (0..(w - 1))

\* no solver: the grid is used on its own
NoSolver ==
    /\ slots = <<>>
    /\ word_list = {}
    /\ overlaps = <<>>
    /\ theme_assignment = EmptyDict
    /\ theme = None
    /\ theme_influence = 1
    /\ pc = "none"
    /\ domains = <<>>
    /\ queue = <<>>
    /\ ac3_result = "unset"
    /\ assignment = EmptyDict
    /\ stack = <<>>
    /\ backtrack_count = 0
    /\ returned = <<>>
    /\ printed = <<>>

\* the test reading letters as black too: cell is not None
IsNotEmpty(g, row, col) == g[<<row, col>>] # NoneCell

\* is_black: the cell holds '#'
is_black(g, row, col) == g[<<row, col>>] = BLACK_SQUARE

\* Slot(row, col, direction, length, cells)
Slot(row, col, direction, length, cells) ==
    [row |-> row, col |-> col, direction |-> direction, length |-> length,
     cells |-> cells]

\* _get_mirror_cell: the cell's image under the rotation by 180 degrees
_get_mirror_cell(w, h, row, col) == <<h - 1 - row, w - 1 - col>>

\* set_cell(row, col, value) on a cell of the grid: the cell is set, and under
\* enforce_symmetry a black square or a cleared cell is copied to the mirror
set_cell(g, w, h, sym, row, col, value) ==
    LET g1 == [g EXCEPT ![<<row, col>>] = value]
        mirror == _get_mirror_cell(w, h, row, col)
    IN  IF sym /\ value = BLACK_SQUARE
        THEN [g1 EXCEPT ![mirror] = BLACK_SQUARE]
        ELSE IF sym /\ value = NoneCell
             THEN [g1 EXCEPT ![mirror] = NoneCell]
             ELSE g1
\* the across slots of one row, from column col on: skip black squares,
\* collect the contiguous non-black cells, keep the run if it has 3 cells
RECURSIVE AcrossFrom(_, _, _, _)
AcrossFrom(g, w, row, col) ==
    IF col >= w THEN <<>>
    ELSE IF is_black(g, row, col) THEN AcrossFrom(g, w, row, col + 1)
    ELSE LET stop == CHOOSE c \in col..w :
                        /\ c = w \/ is_black(g, row, c)
                        /\ \A d \in col..(c - 1) : ~is_black(g, row, d)
             cells == [k \in 1..(stop - col) |-> <<row, col + k - 1>>]
         IN  (IF Len(cells) >= 3
              THEN <<Slot(row, col, "across", Len(cells), cells)>>
              ELSE <<>>) \o AcrossFrom(g, w, row, stop)

\* the down slots of one column, from row row on
RECURSIVE DownFrom(_, _, _, _)
DownFrom(g, h, col, row) ==
    IF row >= h THEN <<>>
    ELSE IF is_black(g, row, col) THEN DownFrom(g, h, col, row + 1)
    ELSE LET stop == CHOOSE r \in row..h :
                        /\ r = h \/ is_black(g, r, col)
                        /\ \A d \in row..(r - 1) : ~is_black(g, d, col)
             cells == [k \in 1..(stop - row) |-> <<row + k - 1, col>>]
         IN  (IF Len(cells) >= 3
              THEN <<Slot(row, col, "down", Len(cells), cells)>>
              ELSE <<>>) \o DownFrom(g, h, col, stop)

\* the across slots of the rows from row on
RECURSIVE AcrossRows(_, _, _, _)
AcrossRows(g, w, h, row) ==
    IF row >= h THEN <<>>
    ELSE AcrossFrom(g, w, row, 0) \o AcrossRows(g, w, h, row + 1)

\* the down slots of the columns from col on
RECURSIVE DownCols(_, _, _, _)
DownCols(g, w, h, col) ==
    IF col >= w THEN <<>>
    ELSE DownFrom(g, h, col, 0) \o DownCols(g, w, h, col + 1)

\* extract_slots with the columns scanned before the rows
ExtractSlotsDownFirst(g, w, h) == DownCols(g, w, h, 0) \o AcrossRows(g, w, h, 0)

\* extract_slots: the across slots row by row, then the down slots column by
\* column
extract_slots(g, w, h) == AcrossRows(g, w, h, 0) \o DownCols(g, w, h, 0)

\* the indices of the shared cell taken the other way round
PairOverlapSwapped(slot1, slot2) ==
    LET n1 == Len(slot1.cells)
        n2 == Len(slot2.cells)
        matches(idx1) == {idx2 \in 0..(n2 - 1) :
                             slot1.cells[idx1 + 1] = slot2.cells[idx2 + 1]}
        hits == {idx1 \in 0..(n1 - 1) : matches(idx1) # {}}
    IN  IF slot1.direction = slot2.direction \/ hits = {}
        THEN None
        ELSE LET idx1 == CHOOSE i \in hits : \A k \in hits : k <= i
                 idx2 == CHOOSE j \in matches(idx1) : \A k \in matches(idx1) : j <= k
             IN  Some(<<idx2, idx1>>)

\* the loops over the cells of a pair of slots: None for slots of one
\* direction or without a common cell, else the (idx1, idx2) written last:
\* the last idx1 that has a match, with its first matching idx2
pair_overlap(slot1, slot2) ==
    LET n1 == Len(slot1.cells)
        n2 == Len(slot2.cells)
        matches(idx1) == {idx2 \in 0..(n2 - 1) :
                             slot1.cells[idx1 + 1] = slot2.cells[idx2 + 1]}
        hits == {idx1 \in 0..(n1 - 1) : matches(idx1) # {}}
    IN  IF slot1.direction = slot2.direction \/ hits = {}
        THEN None
        ELSE LET idx1 == CHOOSE i \in hits : \A k \in hits : k <= i
                 idx2 == CHOOSE j \in matches(idx1) : \A k \in matches(idx1) : j <= k
             IN  Some(<<idx1, idx2>>)

\* what one pair of slots adds to the dict: both directions, or nothing
PairEntries(slot1, slot2) ==
    LET found == pair_overlap(slot1, slot2)
    IN  IF ~found.some THEN EmptyDict
        ELSE (<<slot2, slot1>> :> <<found.value[2], found.value[1]>>) @@
             (<<slot1, slot2>> :> found.value)

\* the dict after the pairs from (i, j) on, in the order of the two loops;
\* a later pair overwrites the keys of an earlier one
RECURSIVE OverlapsFrom(_, _, _, _)
OverlapsFrom(sl, i, j, acc) ==
    IF i > Len(sl) THEN acc
    ELSE IF j > Len(sl) THEN OverlapsFrom(sl, i + 1, i + 2, acc)
    ELSE OverlapsFrom(sl, i, j + 1, PairEntries(sl[i], sl[j]) @@ acc)

\* calculate_overlaps comparing each slot with the next one only
CalculateOverlapsAdjacent(sl) ==
    LET RECURSIVE from(_, _)
        from(i, acc) ==
            IF i >= Len(sl) THEN acc
            ELSE from(i + 1, PairEntries(sl[i], sl[i + 1]) @@ acc)
    IN  from(1, EmptyDict)

\* calculate_overlaps(slots)
calculate_overlaps(sl) == OverlapsFrom(sl, 1, 2, EmptyDict)

\* a new grid: every cell None
InitGrid ==
    /\ \E d \in Dimensions : width = d[1] /\ height = d[2]
    /\ enforce_symmetry \in BOOLEAN
    /\ grid = [c \in Cells(width, height) |-> NoneCell]
    /\ grid_pc = "pattern"
    /\ grid_slots = <<>>
    /\ grid_overlaps = EmptyDict
    /\ NoSolver
    /\ NoTheme

\* grid.set_cell(row, col, value) on a cell of the grid
SetCell ==
    /\ grid_pc = "pattern"
    /\ \E c \in Cells(width, height), value \in CellValues :
          grid' = set_cell(grid, width, height, enforce_symmetry,
                           c[1], c[2], value)
    /\ Cardinality({c \in Cells(width, height) : grid'[c] # NoneCell}) <= MaxMarks
    /\ UNCHANGED <<solver_vars, theme_vars, outcome,
                   width, height, enforce_symmetry, grid_pc,
                   grid_slots, grid_overlaps>>

\* slots = grid.extract_slots()
ExtractSlots ==
    /\ grid_pc = "pattern"
    /\ grid_slots' = extract_slots(grid, width, height)
    /\ grid_pc' = "slots"
    /\ UNCHANGED <<solver_vars, theme_vars, outcome,
                   width, height, enforce_symmetry, grid,
                   grid_overlaps>>

\* overlaps = grid.calculate_overlaps(slots)
CalculateOverlaps ==
    /\ grid_pc = "slots"
    /\ grid_overlaps' = calculate_overlaps(grid_slots)
    /\ grid_pc' = "overlaps"
    /\ UNCHANGED <<solver_vars, theme_vars, outcome,
                   width, height, enforce_symmetry, grid,
                   grid_slots>>

NextGrid == SetCell \/ ExtractSlots \/ CalculateOverlaps

SpecGrid == InitGrid /\ [][NextGrid]_vars

\* extract_slots has returned
Extracted == grid_pc \in {"slots", "overlaps"}

\* the cell is in the grid and not black (empty, or holding a letter)
NonBlack(c) == c \in Cells(width, height) /\ grid[c] # BLACK_SQUARE

\* the cells of the run of n cells that starts at (r, c) in a direction
RunCells(direction, r, c, n) ==
    [k \in 1..n |-> IF direction = "across" THEN <<r, c + k - 1>>
                    ELSE <<r + k - 1, c>>]

\* the cell before the run's first and the cell after its last
RunEnds(direction, r, c, n) ==
    IF direction = "across" THEN {<<r, c - 1>>, <<r, c + n>>}
    ELSE {<<r - 1, c>>, <<r + n, c>>}

\* the maximal horizontal and vertical runs of at least 3 non-black cells
MaximalRuns ==
    {Slot(x[2], x[3], x[1], x[4], RunCells(x[1], x[2], x[3], x[4])) :
        x \in {y \in {"across", "down"} \X (0..(height - 1)) \X (0..(width - 1))
                        \X (3..(IF width > height THEN width ELSE height)) :
                 /\ \A k \in 1..y[4] : NonBlack(RunCells(y[1], y[2], y[3], y[4])[k])
                 /\ \A e \in RunEnds(y[1], y[2], y[3], y[4]) : ~NonBlack(e)}}

\* the slots of the list grid_slots
ExtractedSlots == {grid_slots[i] : i \in 1..Len(grid_slots)}

\* C17: extract_slots returns exactly the maximal horizontal and vertical runs
\* of at least 3 non-black cells, each once, letters counting as non-black; an
\* N x N grid without black squares gives N across and N down slots of length N.
C17_MaximalRunsExtracted ==
    Extracted =>
        /\ ExtractedSlots = MaximalRuns
        /\ Len(grid_slots) = Cardinality(MaximalRuns)
        /\ \A s \in ExtractedSlots : s.length >= 3 /\ s.length = Len(s.cells)
        /\ (width = height /\ \A c \in Cells(width, height) : NonBlack(c)) =>
              \A d \in {"across", "down"} :
                  /\ Cardinality({s \in ExtractedSlots : s.direction = d}) = width
                  /\ \A s \in ExtractedSlots : s.length = width

\* slots extracted from a grid where a slot runs over a letter and a black
\* square leaves a run of fewer than 3 cells, which is in no across slot
C17_Witness ==
    /\ Extracted
    /\ \E c \in Cells(width, height) :
          /\ grid[c] = "A"
          /\ \E s \in ExtractedSlots : \E k \in 1..Len(s.cells) : s.cells[k] = c
    /\ \E c \in Cells(width, height) :
          /\ NonBlack(c)
          /\ \A s \in ExtractedSlots :
                s.direction = "across" => \A k \in 1..Len(s.cells) : s.cells[k] # c

\* slot a comes before slot b in the order of the claim: across before down,
\* across by (row, start column), down by (column, start row)
SlotBefore(a, b) ==
    \/ a.direction = "across" /\ b.direction = "down"
    \/ /\ a.direction = "across" /\ b.direction = "across"
       /\ a.row < b.row \/ (a.row = b.row /\ a.col < b.col)
    \/ /\ a.direction = "down" /\ b.direction = "down"
       /\ a.col < b.col \/ (a.col = b.col /\ a.row < b.row)

\* C18: the list extract_slots returns has the across slots first, by row and
\* then start column, and the down slots after them, by column and then start
\* row, so that the grid fixes the order; the call leaves the grid as it was.
C18_ExtractionOrder ==
    [][(grid_pc = "pattern" /\ grid_pc' = "slots") =>
          /\ grid' = grid
          /\ \A i, j \in 1..Len(grid_slots') :
                i < j => SlotBefore(grid_slots'[i], grid_slots'[j])]_vars

\* slots extracted from a grid with two across slots in one row and a down
\* slot that starts below the first row
C18_Witness ==
    /\ Extracted
    /\ \E i, j \in 1..Len(grid_slots) :
          /\ i < j
          /\ grid_slots[i].direction = "across"
          /\ grid_slots[j].direction = "across"
          /\ grid_slots[i].row = grid_slots[j].row
    /\ \E i \in 1..Len(grid_slots) :
          grid_slots[i].direction = "down" /\ grid_slots[i].row > 0

\* C19: whenever (A, B) is in the map calculate_overlaps returns, (B, A) is in
\* it with the two indices swapped, and the indices (i, j) of (A, B) name one
\* cell: A.cells[i] = B.cells[j].
C19_OverlapSymmetry ==
    grid_pc = "overlaps" =>
        \A p \in DOMAIN grid_overlaps :
            LET i == grid_overlaps[p][1]
                j == grid_overlaps[p][2]
            IN  /\ <<p[2], p[1]>> \in DOMAIN grid_overlaps
                /\ grid_overlaps[<<p[2], p[1]>>] = <<j, i>>
                /\ i \in 0..(Len(p[1].cells) - 1)
                /\ j \in 0..(Len(p[2].cells) - 1)
                /\ p[1].cells[i + 1] = p[2].cells[j + 1]

\* overlaps computed for slots that cross away from the diagonal, so that the
\* two indices of a pair differ
C19_Witness ==
    /\ grid_pc = "overlaps"
    /\ \E p \in DOMAIN grid_overlaps :
          grid_overlaps[p][1] # grid_overlaps[p][2]
    /\ \E c \in Cells(width, height) : grid[c] = BLACK_SQUARE

\* the cells of a slot, as a set
CellSet(s) == {s.cells[k] : k \in 1..Len(s.cells)}

\* C20: for the slots extract_slots returns, (A, B) is in the overlap map
\* exactly when A and B are distinct slots that share a cell; two slots of
\* one direction never share a cell, and an across and a down slot share at
\* most one.
C20_OverlapsExactlySharedCells ==
    grid_pc = "overlaps" =>
        \A a, b \in ExtractedSlots :
            /\ <<a, b>> \in DOMAIN grid_overlaps <=>
                  (a # b /\ CellSet(a) \cap CellSet(b) # {})
            /\ (a # b /\ a.direction = b.direction) =>
                  CellSet(a) \cap CellSet(b) = {}
            /\ a # b => Cardinality(CellSet(a) \cap CellSet(b)) <= 1

\* overlaps computed for a grid where some across and some down slot do not
\* meet, and two across slots lie in one row
C20_Witness ==
    /\ grid_pc = "overlaps"
    /\ DOMAIN grid_overlaps # {}
    /\ \E a, b \in ExtractedSlots :
          /\ a.direction = "across" /\ b.direction = "down"
          /\ <<a, b>> \notin DOMAIN grid_overlaps
    /\ \E a, b \in ExtractedSlots :
          a # b /\ a.direction = "across" /\ b.direction = "across" /\ a.row = b.row

\* check_symmetry(): the pattern of black squares has the 180 degree symmetry
check_symmetry(g, w, h) ==
    \A c \in Cells(w, h) :
        LET mirror == _get_mirror_cell(w, h, c[1], c[2])
        IN  is_black(g, c[1], c[2]) <=> is_black(g, mirror[1], mirror[2])

\* C21: with enforce_symmetry, after any sequence of set_cell calls on a new
\* grid a cell is black exactly when its mirror cell is black:
\* check_symmetry() returns True.
C21_SymmetryKept ==
    enforce_symmetry => check_symmetry(grid, width, height)

---------------------------------------------------------------------------
(* Constructing a grid: CrosswordGrid(width, height, enforce_symmetry). *)

MIN_SIZE == 4

MAX_SIZE == 30

\* how far below MIN_SIZE and above MAX_SIZE the sizes asked for go
SizeMargin == 2

\* the widths and heights a caller asks for
ArgSizes == (MIN_SIZE - SizeMargin)..(MAX_SIZE + SizeMargin)

\* the validation checking the width only
InitRaisesWidthOnly(w, h) ==
    IF ~(MIN_SIZE <= w /\ w <= MAX_SIZE) THEN "ValueError" ELSE "none"

\* the validation of __init__: what it raises for a width and a height
init_raises(w, h) ==
    IF ~(MIN_SIZE <= w /\ w <= MAX_SIZE) THEN "ValueError"
    ELSE IF ~(MIN_SIZE <= h /\ h <= MAX_SIZE) THEN "ValueError"
    ELSE "none"

\* before the constructor runs: width and height hold its arguments, height
\* None when it is left out
InitNew ==
    /\ width \in ArgSizes
    /\ height \in {None} \cup {Some(h) : h \in ArgSizes}
    /\ enforce_symmetry \in BOOLEAN
    /\ grid = <<>>
    /\ grid_pc = "new"
    /\ grid_slots = <<>>
    /\ grid_overlaps = EmptyDict
    /\ NoSolver
    /\ NoTheme

\* CrosswordGrid.__init__: height defaults to width, both are validated, and
\* the grid is made with every cell None
NewGrid ==
    /\ grid_pc = "new"
    /\ LET h == IF height.some THEN height.value ELSE width
           r == init_raises(width, h)
       IN  /\ outcome' = [op |-> "__init__", width |-> width,
                          height |-> height, raised |-> r]
           /\ IF r = "none"
              THEN /\ height' = h
                   /\ grid' = [c \in Cells(width, h) |-> NoneCell]
                   /\ grid_pc' = "pattern"
              ELSE /\ grid_pc' = "raised"
                   /\ UNCHANGED <<height, grid>>
    /\ UNCHANGED <<solver_vars, theme_vars, width, enforce_symmetry,
                   grid_slots, grid_overlaps>>

NextNew == NewGrid

SpecNew == InitNew /\ [][NextNew]_vars

\* C22: constructing a grid succeeds exactly when the width and the height
\* (the width again when no height is given) both lie in 4..30; otherwise
\* ValueError is raised and there is no grid.
C22_ConstructedIffInRange ==
    outcome.op = "__init__" =>
        LET h == IF outcome.height.some THEN outcome.height.value
                 ELSE outcome.width
            in_range == outcome.width \in 4..30 /\ h \in 4..30
        IN  /\ grid_pc = "pattern" <=> in_range
            /\ grid_pc = "pattern" =>
                  /\ width = outcome.width /\ height = h
                  /\ grid = [c \in Cells(outcome.width, h) |-> NoneCell]
            /\ grid_pc # "pattern" =>
                  outcome.raised = "ValueError" /\ grid = <<>>

\* a constructor call with a good width and a height that is too large
C22_Witness ==
    /\ outcome.op = "__init__"
    /\ outcome.width \in 4..30
    /\ outcome.height.some /\ outcome.height.value > 30
    /\ grid_pc = "raised"

---------------------------------------------------------------------------
(* Calls of get_cell and set_cell with any arguments. *)

\* the most calls made on a grid
MaxCalls == 2

\* the calls made so far
Calls == IF outcome.op = "none" THEN 0 ELSE outcome.calls

\* the (width, height) of the grids the calls are made on
CallDimensions == {<<5, 4>>}

\* the values handed to set_cell: None, '#', 'A', and the string 'AB'
ArgValues == CellValues \cup {"AB"}

\* len(str(value)) of a value handed to set_cell
StrLen(value) == IF value = "AB" THEN 2 ELSE IF value = NoneCell THEN 4 ELSE 1

\* the bounds check of get_cell and set_cell
in_bounds(w, h, row, col) == 0 <= row /\ row < h /\ 0 <= col /\ col < w

\* what set_cell raises: the bounds check, then the value validation
set_cell_raises(w, h, row, col, value) ==
    IF ~in_bounds(w, h, row, col) THEN "IndexError"
    ELSE IF value # NoneCell /\ value # BLACK_SQUARE /\ StrLen(value) # 1
         THEN "ValueError"
         ELSE "none"

\* set_cell writing the cell before it validates the value
SetCellCallWriteFirst(g, w, h, sym, row, col, value) ==
    LET r == set_cell_raises(w, h, row, col, value)
    IN  [raised |-> r,
         grid |-> IF r = "none" THEN set_cell(g, w, h, sym, row, col, value)
                  ELSE IF r = "ValueError"
                       THEN [g EXCEPT ![<<row, col>>] = value]
                       ELSE g]

\* a call of set_cell with any arguments: what it raises, and the grid after
set_cell_call(g, w, h, sym, row, col, value) ==
    LET r == set_cell_raises(w, h, row, col, value)
    IN  [raised |-> r,
         grid |-> IF r = "none" THEN set_cell(g, w, h, sym, row, col, value)
                  ELSE g]

\* a call of get_cell with any arguments: what it raises, or what it returns
get_cell_call(g, w, h, row, col) ==
    IF ~in_bounds(w, h, row, col)
    THEN [raised |-> "IndexError", returned |-> NoneCell]
    ELSE [raised |-> "none", returned |-> g[<<row, col>>]]

\* a new grid: every cell None
InitCalls ==
    /\ \E d \in CallDimensions : width = d[1] /\ height = d[2]
    /\ enforce_symmetry \in BOOLEAN
    /\ grid = [c \in Cells(width, height) |-> NoneCell]
    /\ grid_pc = "pattern"
    /\ grid_slots = <<>>
    /\ grid_overlaps = EmptyDict
    /\ NoSolver
    /\ NoTheme

\* grid.set_cell(row, col, value) with a row and a column in or next to the
\* grid and any of the values
SetCellCall ==
    /\ grid_pc = "pattern"
    /\ Calls < MaxCalls
    /\ \E row \in (-1)..height, col \in (-1)..width, value \in ArgValues :
          LET res == set_cell_call(grid, width, height, enforce_symmetry,
                                   row, col, value)
          IN  /\ grid' = res.grid
              /\ outcome' = [op |-> "set_cell", row |-> row, col |-> col,
                             value |-> value, raised |-> res.raised,
                             returned |-> NoneCell, calls |-> Calls + 1]
    /\ Cardinality({c \in Cells(width, height) : grid'[c] # NoneCell}) <= MaxMarks
    /\ UNCHANGED <<solver_vars, theme_vars, width, height, enforce_symmetry,
                   grid_pc, grid_slots, grid_overlaps>>

\* grid.get_cell(row, col) with a row and a column in or next to the grid
GetCellCall ==
    /\ grid_pc = "pattern"
    /\ Calls < MaxCalls
    /\ \E row \in (-1)..height, col \in (-1)..width :
          LET res == get_cell_call(grid, width, height, row, col)
          IN  outcome' = [op |-> "get_cell", row |-> row, col |-> col,
                          value |-> NoneCell, raised |-> res.raised,
                          returned |-> res.returned, calls |-> Calls + 1]
    /\ UNCHANGED <<solver_vars, theme_vars, width, height, enforce_symmetry,
                   grid, grid_pc, grid_slots, grid_overlaps>>

NextCalls == SetCellCall \/ GetCellCall

SpecCalls == InitCalls /\ [][NextCalls]_vars

\* C23: a get_cell or set_cell with a row or a column outside the grid raises
\* IndexError, and a set_cell that fails, being out of bounds or given a value
\* that is not None, '#' or one character, raises and leaves every cell of
\* the grid as it was, the mirror cell included.
C23_FailedCallsChangeNothing ==
    [][LET o == outcome'
           outside == ~(o.row \in 0..(height - 1) /\ o.col \in 0..(width - 1))
       IN  o.op \in {"get_cell", "set_cell"} =>
              /\ outside => o.raised = "IndexError"
              /\ (o.op = "set_cell" /\ (outside \/ o.value \notin CellValues)) =>
                    o.raised # "none" /\ grid' = grid]_vars

\* under enforce_symmetry, a set_cell inside the grid with a value of two
\* characters has raised ValueError, on a cell whose mirror is black
C23_Witness ==
    /\ enforce_symmetry
    /\ outcome.op = "set_cell"
    /\ outcome.raised = "ValueError"
    /\ LET mirror == _get_mirror_cell(width, height, outcome.row, outcome.col)
       IN  grid[mirror] = BLACK_SQUARE

---------------------------------------------------------------------------
(* ThemeManager: the required theme words and their placement. *)

\* the most theme words of a ThemeManager
MaxThemeWords == 3

\* the most slots handed to place_theme_words
MaxPlaceSlots == 3

\* the letters of the words handed to a ThemeManager, in both cases
ManagerLetters == {"A", "a", "b"}

\* the words handed to a ThemeManager
ManagerWords == UNION {[1..n -> ManagerLetters] : n \in 1..2}

\* the lengths of the slots handed to place_theme_words
PlaceLengths == 1..3

\* str.upper() of a letter
UpperLetter(c) == IF c = "a" THEN "A" ELSE IF c = "b" THEN "B" ELSE c

\* str.upper(): every letter in upper case
upper(word) == [i \in 1..Len(word) |-> UpperLetter(word[i])]

\* the sequences of at most n elements of a set
SeqUpTo(S, n) == UNION {[1..k -> S] : k \in 0..n}

\* the words of a list that have a given length, in the order of the list
OfLength(ws, n) == SelectSeq(ws, LAMBDA w : Len(w) = n)

\* sorted(theme_words, key=len) without reverse: shortest first
SortedShortestFirst(ws) ==
    LET RECURSIVE upTo(_)
        upTo(n) == IF n = 0 THEN <<>> ELSE upTo(n - 1) \o OfLength(ws, n)
    IN  upTo(2)

\* sorted(theme_words, key=len, reverse=True): longest first, words of one
\* length in the order of the list
sorted_theme_words(ws) ==
    LET RECURSIVE downFrom(_)
        downFrom(n) == IF n = 0 THEN <<>> ELSE OfLength(ws, n) \o downFrom(n - 1)
    IN  downFrom(2)

\* the slots, by position in the list, of the word's length and not yet used
matching_slots(sl, theme_word, used_slots) ==
    {s \in 1..Len(sl) : sl[s] = Len(theme_word) /\ s \notin used_slots}

\* the loop leaving out a word that has no slot instead of raising
PlaceFromSkipping(sl, sorted, k, asg, used_slots) ==
    LET RECURSIVE skip(_, _, _)
        skip(i, a, u) ==
            IF i > Len(sorted) THEN [raised |-> "none", returned |-> Some(a)]
            ELSE LET matching == matching_slots(sl, sorted[i], u)
                 IN  IF matching = {} THEN skip(i + 1, a, u)
                     ELSE LET slot == CHOOSE s \in matching :
                                          \A t \in matching : s <= t
                          IN  skip(i + 1, Append(a, <<slot, sorted[i]>>),
                                   u \cup {slot})
    IN  skip(k, asg, used_slots)

\* the loop over the sorted theme words from the k-th on: ValueError when a
\* word has no matching slot left, else the first one is taken; the dict
\* assignment is the list of its (slot, word) items in insertion order
RECURSIVE PlaceFrom(_, _, _, _, _)
PlaceFrom(sl, sorted, k, asg, used_slots) ==
    IF k > Len(sorted) THEN [raised |-> "none", returned |-> Some(asg)]
    ELSE LET matching == matching_slots(sl, sorted[k], used_slots)
         IN  IF matching = {}
             THEN [raised |-> "ValueError", returned |-> None]
             ELSE LET slot == CHOOSE s \in matching : \A t \in matching : s <= t
                  IN  PlaceFrom(sl, sorted, k + 1,
                                Append(asg, <<slot, sorted[k]>>),
                                used_slots \cup {slot})

\* place_theme_words(grid, slots)
place_theme_words(ws, sl) ==
    PlaceFrom(sl, sorted_theme_words(ws), 1, <<>>, {})

\* ThemeManager(theme_words=...) has been constructed and a slot list is at
\* hand
InitPlace ==
    /\ description = None
    /\ \E given \in SeqUpTo(ManagerWords, MaxThemeWords) :
          theme_words = [i \in 1..Len(given) |-> upper(given[i])]
    /\ word_scores = EmptyDict
    /\ ever_scored = {}
    /\ outcome = NoCall
    /\ slots \in SeqUpTo(PlaceLengths, MaxPlaceSlots)
    /\ word_list = {}
    /\ overlaps = <<>>
    /\ theme_assignment = EmptyDict
    /\ theme = None
    /\ theme_influence = 1
    /\ pc = "none"
    /\ domains = <<>>
    /\ queue = <<>>
    /\ ac3_result = "unset"
    /\ assignment = EmptyDict
    /\ stack = <<>>
    /\ backtrack_count = 0
    /\ returned = <<>>
    /\ printed = <<>>
    /\ NoGrid

\* theme.place_theme_words(grid, slots)
PlaceThemeWords ==
    /\ outcome.op = "none"
    /\ LET res == place_theme_words(theme_words, slots)
       IN  outcome' = [op |-> "place_theme_words", raised |-> res.raised,
                       returned |-> res.returned]
    /\ UNCHANGED <<solver_vars, grid_vars, theme_vars>>

NextPlace == PlaceThemeWords

SpecPlace == InitPlace /\ [][NextPlace]_vars

\* the k-th slot of length n in the slot list, 0 when there are fewer
KthSlot(n, k) ==
    LET of_n == {s \in 1..Len(slots) : slots[s] = n}
        kth == {s \in of_n : Cardinality({t \in of_n : t <= s}) = k}
    IN  IF kth = {} THEN 0 ELSE CHOOSE s \in kth : TRUE

\* the lengths that more theme words have than slots
ShortLengths ==
    {n \in 1..3 : Len(OfLength(theme_words, n)) >
                     Cardinality({s \in 1..Len(slots) : slots[s] = n})}

\* place_theme_words has returned a placement
Placed == outcome.op = "place_theme_words" /\ outcome.raised = "none"

\* C24: when place_theme_words succeeds, the result has one entry per theme
\* word, every theme word is given a slot of its own, of the word's length,
\* the words were entered longest first, and the k-th theme word of a length
\* has the k-th slot of that length in the slot list (first fit).
C24_GreedyFirstFit ==
    Placed =>
        LET items == outcome.returned.value
            keys == {items[i][1] : i \in 1..Len(items)}
            asg == [s \in keys |->
                       items[CHOOSE i \in 1..Len(items) : items[i][1] = s][2]]
        IN  /\ keys \subseteq 1..Len(slots)
            /\ Len(items) = Len(theme_words)
            /\ Cardinality(keys) = Len(theme_words)
            /\ \A s \in keys : slots[s] = Len(asg[s])
            /\ \A i, j \in 1..Len(items) :
                  i < j => Len(items[i][2]) >= Len(items[j][2])
            /\ \A n \in 1..3 :
                  \A k \in 1..Len(OfLength(theme_words, n)) :
                      /\ KthSlot(n, k) \in DOMAIN asg
                      /\ asg[KthSlot(n, k)] = OfLength(theme_words, n)[k]

\* a placement of three theme words, two of one length that differ, where a
\* shorter word comes first in the list and a slot of no word's length
\* comes first in the slot list
C24_Witness ==
    /\ Placed
    /\ Len(theme_words) = 3
    /\ Len(theme_words[1]) < Len(theme_words[2])
    /\ theme_words[2] # theme_words[3]
    /\ Len(theme_words[2]) = Len(theme_words[3])
    /\ slots[1] # slots[2]

\* C25: place_theme_words raises ValueError exactly when some theme word,
\* taken longest first, finds no unused slot of its length; then nothing is
\* returned, and the slot list and the ThemeManager are as before.
C25_RaisesExactlyOnShortage ==
    [][outcome'.op = "place_theme_words" =>
          /\ outcome'.raised = "ValueError" <=> ShortLengths # {}
          /\ outcome'.raised \in {"none", "ValueError"}
          /\ outcome'.raised = "ValueError" =>
                /\ outcome'.returned = None
                /\ slots' = slots
                /\ theme_vars' = theme_vars]_vars

\* ValueError raised for the second of two words of one length, the first
\* having taken the only slot of that length
C25_Witness ==
    /\ outcome.op = "place_theme_words"
    /\ outcome.raised = "ValueError"
    /\ \E n \in ShortLengths : \E s \in 1..Len(slots) : slots[s] = n

---------------------------------------------------------------------------
(* ThemeManager: the word scores. *)

\* the most words handed to score_word_list, and the most files handed to
\* merge_scored_lists
MaxListed == 2

\* the words that are scored and asked for: one letter, in both cases
ScoreWords == [1..1 -> ManagerLetters]

\* the scores handed to set_word_score and given by a scorer_func
ArgScores == {-1, 0, 50, 100, 101}

\* the paths handed to load_scores and merge_scored_lists: a file that does
\* not exist, and a saved scored list
FilePaths == {"missing.json", "scored.json"}

\* Path(filepath).exists(), and open(filepath) succeeding
exists(filepath) == filepath = "scored.json"

\* set_word_score storing the score without the range check
SetWordScoreUnchecked(scores, word, score) ==
    [raised |-> "none", scores |-> (upper(word) :> score) @@ scores]

\* set_word_score(word, score): what it raises and the word_scores after
set_word_score(scores, word, score) ==
    IF ~(0 <= score /\ score <= 100)
    THEN [raised |-> "ValueError", scores |-> scores]
    ELSE [raised |-> "none", scores |-> (upper(word) :> score) @@ scores]

\* the loop of score_word_list from the k-th word on: set_word_score with the
\* scorer's score for each word, stopping at the first that raises; done is
\* the number of words that were given their score
RECURSIVE ScoreFrom(_, _, _, _)
ScoreFrom(scores, words, scorer_func, k) ==
    IF k > Len(words)
    THEN [raised |-> "none", scores |-> scores, done |-> Len(words)]
    ELSE LET res == set_word_score(scores, words[k], scorer_func[words[k]])
         IN  IF res.raised # "none"
             THEN [raised |-> res.raised, scores |-> res.scores, done |-> k - 1]
             ELSE ScoreFrom(res.scores, words, scorer_func, k + 1)

\* score_word_list(words, scorer_func)
score_word_list(desc, scores, words, scorer_func) ==
    IF desc = None
    THEN [raised |-> "ValueError", scores |-> scores, done |-> 0]
    ELSE ScoreFrom(scores, words, scorer_func, 1)

\* load_scores(filepath, merge): FileNotFoundError for a file that does not
\* exist; for one that does, json.load raises NameError, the module having
\* no import of json, before word_scores is touched
load_scores(scores, filepath, merge) ==
    IF ~exists(filepath) THEN [raised |-> "FileNotFoundError", scores |-> scores]
    ELSE [raised |-> "NameError", scores |-> scores]

\* merge_scored_lists(filepaths, strategy): open raises FileNotFoundError for
\* a first file that does not exist, json.load raises NameError for one that
\* does; with no files nothing is merged
merge_scored_lists(scores, filepaths, strategy) ==
    IF filepaths = <<>> THEN [raised |-> "none", scores |-> scores]
    ELSE IF ~exists(filepaths[1])
         THEN [raised |-> "FileNotFoundError", scores |-> scores]
         ELSE [raised |-> "NameError", scores |-> scores]

\* get_word_score(word) of a ThemeManager with these word_scores
get_word_score_of(scores, word) == get_word_score(Some(scores), upper(word))

\* ThemeManager(description) has been constructed
InitScores ==
    /\ description \in {None, Some("Space")}
    /\ theme_words = <<>>
    /\ word_scores = EmptyDict
    /\ ever_scored = {}
    /\ outcome = NoCall
    /\ NoSolver
    /\ NoGrid

\* theme.set_word_score(word, score)
SetWordScore ==
    /\ \E word \in ScoreWords, score \in ArgScores :
          LET res == set_word_score(word_scores, word, score)
          IN  /\ word_scores' = res.scores
              /\ ever_scored' = IF res.raised = "none"
                                THEN ever_scored \cup {word} ELSE ever_scored
              /\ outcome' = [op |-> "set_word_score", word |-> word,
                             score |-> score, raised |-> res.raised,
                             returned |-> 0]
    /\ UNCHANGED <<solver_vars, grid_vars, description, theme_words>>

\* theme.score_word_list(words, scorer_func)
ScoreWordList ==
    /\ \E words \in SeqUpTo(ScoreWords, MaxListed),
          scorer_func \in [ScoreWords -> ArgScores] :
          LET res == score_word_list(description, word_scores, words,
                                     scorer_func)
          IN  /\ word_scores' = res.scores
              /\ ever_scored' =
                    ever_scored \cup {words[k] : k \in 1..res.done}
              /\ outcome' = [op |-> "score_word_list", word |-> <<>>,
                             score |-> 0, raised |-> res.raised,
                             returned |-> 0]
    /\ UNCHANGED <<solver_vars, grid_vars, description, theme_words>>

\* theme.load_scores(filepath, merge)
LoadScores ==
    /\ \E filepath \in FilePaths, merge \in BOOLEAN :
          LET res == load_scores(word_scores, filepath, merge)
          IN  /\ word_scores' = res.scores
              /\ outcome' = [op |-> "load_scores", word |-> <<>>,
                             score |-> 0, raised |-> res.raised,
                             returned |-> 0]
    /\ UNCHANGED <<solver_vars, grid_vars, description, theme_words,
                   ever_scored>>

\* theme.merge_scored_lists(filepaths, strategy)
MergeScoredLists ==
    /\ \E filepaths \in SeqUpTo(FilePaths, MaxListed),
          strategy \in {"max", "min", "avg", "first", "other"} :
          LET res == merge_scored_lists(word_scores, filepaths, strategy)
          IN  /\ word_scores' = res.scores
              /\ outcome' = [op |-> "merge_scored_lists", word |-> <<>>,
                             score |-> 0, raised |-> res.raised,
                             returned |-> 0]
    /\ UNCHANGED <<solver_vars, grid_vars, description, theme_words,
                   ever_scored>>

\* theme.get_word_score(word)
GetWordScore ==
    /\ \E word \in ScoreWords :
          outcome' = [op |-> "get_word_score", word |-> word, score |-> 0,
                      raised |-> "none",
                      returned |-> get_word_score_of(word_scores, word)]
    /\ UNCHANGED <<solver_vars, grid_vars, theme_vars>>

NextScores ==
    \/ SetWordScore
    \/ ScoreWordList
    \/ LoadScores
    \/ MergeScoredLists
    \/ GetWordScore

SpecScores == InitScores /\ [][NextScores]_vars

---------------------------------------------------------------------------
(* Making a grid symmetric after the fact. *)

\* the pass that looks for black squares in the upper half of the rows only
RECURSIVE EnforceFromUpperHalf(_, _, _, _)
EnforceFromUpperHalf(g, w, h, k) ==
    IF k >= w * ((h + 1) \div 2) THEN g
    ELSE LET row == k \div w
             col == k % w
             mirror == _get_mirror_cell(w, h, row, col)
         IN  EnforceFromUpperHalf(
                 IF g[<<row, col>>] = BLACK_SQUARE
                 THEN [g EXCEPT ![mirror] = BLACK_SQUARE] ELSE g,
                 w, h, k + 1)

\* the two for loops from the k-th cell on, rows first: the mirror of every
\* cell found black is set black in the grid the loops are reading
RECURSIVE EnforceFrom(_, _, _, _)
EnforceFrom(g, w, h, k) ==
    IF k >= w * h THEN g
    ELSE LET row == k \div w
             col == k % w
             mirror == _get_mirror_cell(w, h, row, col)
         IN  EnforceFrom(
                 IF g[<<row, col>>] = BLACK_SQUARE
                 THEN [g EXCEPT ![mirror] = BLACK_SQUARE] ELSE g,
                 w, h, k + 1)

\* the grid after enforce_symmetry_retroactively()
enforce_symmetry_retroactively(g, w, h) == EnforceFrom(g, w, h, 0)

\* grid.enforce_symmetry_retroactively(), on a grid set_cell has drawn or on
\* one it has already run on
EnforceSymmetryRetroactively ==
    /\ grid_pc \in {"pattern", "mirrored"}
    /\ grid' = enforce_symmetry_retroactively(grid, width, height)
    /\ grid_pc' = "mirrored"
    /\ UNCHANGED <<solver_vars, theme_vars, outcome,
                   width, height, enforce_symmetry,
                   grid_slots, grid_overlaps>>

NextSymmetry == SetCell \/ EnforceSymmetryRetroactively

SpecSymmetry == InitGrid /\ [][NextSymmetry]_vars

\* the black squares of a grid
BlackCells(g, w, h) == {c \in Cells(w, h) : is_black(g, c[1], c[2])}

\* C34: after enforce_symmetry_retroactively() check_symmetry() returns True,
\* every cell that was black is still black, and running it a second time
\* changes nothing.
C34_RetroactiveSymmetry ==
    [][grid_pc' = "mirrored" =>
          /\ check_symmetry(grid', width, height)
          /\ BlackCells(grid, width, height) \subseteq
                 BlackCells(grid', width, height)
          /\ grid_pc = "mirrored" => grid' = grid]_vars

\* it has run on a grid that was not symmetric
C34_Witness ==
    /\ grid_pc = "mirrored"
    /\ Cardinality(BlackCells(grid, width, height)) = 4
    /\ ~enforce_symmetry

---------------------------------------------------------------------------
(* generate_pattern(method='random', black_percentage=...) on a new grid. *)

\* the runs: (width, height), black_percentage in hundredths, enforce_symmetry
PatternRuns ==
    ({<<4, 4>>, <<5, 5>>, <<5, 4>>} \X {0, 17, 40, 100} \X {TRUE})
        \cup {<<<<4, 4>>, 17, FALSE>>}

\* int(self.width * self.height * black_percentage), the percentage given in
\* hundredths: the product is not negative and int() drops its fraction
target_blacks(w, h, hundredths) == (w * h * hundredths) \div 100

\* the loop bound without the halving under symmetry
PlacementLimitWhole(target, sym) == target

\* what placed is compared with in the while condition
placement_limit(target, sym) == IF sym THEN target \div 2 ELSE target

\* max_attempts = self.width * self.height * 10
max_attempts(w, h) == w * h * 10

\* the while condition
looping(w, h, sym, locals) ==
    /\ locals.placed < placement_limit(locals.target, sym)
    /\ locals.attempts < max_attempts(w, h)

\* a new grid, and _generate_random_pattern entered: target_blacks computed,
\* placed = 0 and attempts = 0
InitRandom ==
    /\ \E run \in PatternRuns :
          /\ width = run[1][1]
          /\ height = run[1][2]
          /\ enforce_symmetry = run[3]
          /\ outcome = [op |-> "random",
                        target |-> target_blacks(run[1][1], run[1][2], run[2]),
                        placed |-> 0, attempts |-> 0]
    /\ grid = [c \in Cells(width, height) |-> NoneCell]
    /\ grid_pc = "generating"
    /\ grid_slots = <<>>
    /\ grid_overlaps = EmptyDict
    /\ NoSolver
    /\ description = None
    /\ theme_words = <<>>
    /\ word_scores = EmptyDict
    /\ ever_scored = {}

\* one turn of the while loop: a random cell, of the upper left quarter under
\* symmetry; the centre of an odd grid is skipped, a cell that is not black is
\* made black through set_black_square, and attempts grows either way
RandomStep ==
    /\ grid_pc = "generating"
    /\ looping(width, height, enforce_symmetry, outcome)
    /\ LET half_height == (height + 1) \div 2
           half_width == (width + 1) \div 2
           rows == IF enforce_symmetry THEN 0..(half_height - 1)
                   ELSE 0..(height - 1)
           cols == IF enforce_symmetry THEN 0..(half_width - 1)
                   ELSE 0..(width - 1)
       IN  \E row \in rows, col \in cols :
              IF /\ enforce_symmetry
                 /\ height % 2 = 1 /\ width % 2 = 1
                 /\ row = height \div 2 /\ col = width \div 2
              THEN /\ outcome' = [outcome EXCEPT !.attempts = @ + 1]
                   /\ UNCHANGED grid
              ELSE IF ~is_black(grid, row, col)
                   THEN /\ grid' = set_cell(grid, width, height,
                                            enforce_symmetry, row, col,
                                            BLACK_SQUARE)
                        /\ outcome' = [outcome EXCEPT !.placed = @ + 1,
                                                      !.attempts = @ + 1]
                   ELSE /\ outcome' = [outcome EXCEPT !.attempts = @ + 1]
                        /\ UNCHANGED grid
    /\ UNCHANGED <<solver_vars, theme_vars,
                   width, height, enforce_symmetry, grid_pc,
                   grid_slots, grid_overlaps>>

\* the while condition is false: _generate_random_pattern returns
RandomDone ==
    /\ grid_pc = "generating"
    /\ ~looping(width, height, enforce_symmetry, outcome)
    /\ grid_pc' = "generated"
    /\ UNCHANGED <<solver_vars, theme_vars, outcome,
                   width, height, enforce_symmetry, grid,
                   grid_slots, grid_overlaps>>

NextRandom == RandomStep \/ RandomDone

SpecRandom == InitRandom /\ [][NextRandom]_vars

\* C35: random generation on an empty grid with enforce_symmetry=True ends
\* whatever cells are drawn, since every turn of the loop uses up one of the
\* max_attempts attempts, and it leaves a grid for which check_symmetry() is
\* True with no more black squares than target_blacks.
C35_RandomPatternSymmetricWithinTarget ==
    [][enforce_symmetry =>
          /\ grid_pc' = "generating" =>
                /\ outcome'.attempts = outcome.attempts + 1
                /\ outcome'.attempts <= max_attempts(width, height)
          /\ grid_pc' = "generated" =>
                /\ check_symmetry(grid', width, height)
                /\ Cardinality(BlackCells(grid', width, height)) <=
                       outcome.target]_vars

\* a generation under symmetry that placed as many pairs as it was after
C35_Witness ==
    /\ grid_pc = "generated"
    /\ enforce_symmetry
    /\ outcome.placed >= 2
    /\ outcome.placed = placement_limit(outcome.target, TRUE)

\* a generation under symmetry that gave up after max_attempts
RandomGaveUp ==
    /\ grid_pc = "generated"
    /\ enforce_symmetry
    /\ outcome.attempts = max_attempts(width, height)

---------------------------------------------------------------------------
(* Termination: solve(), once called, runs on until it returns or raises;
   whether solve() is called again is up to the caller. *)

\* how many times solve() is called
MaxSolves == 1

\* solve() called while fewer than MaxSolves calls have returned
SolveAgain == Len(returned) < MaxSolves /\ Solve

Running == Ac3Step \/ Ac3Done \/ Call \/ Try \/ Fail

NextLive == Construct \/ SolveAgain \/ Running

SpecLive == Init /\ [][NextLive]_vars /\ WF_vars(Running)

\* C36: ac3() terminates: whenever it is running it comes to an end, by
\* returning or by raising.
C36_Ac3Terminates == (pc = "ac3") ~> (pc # "ac3")

\* ac3() has come to an end with a queue that had taken arcs back in
C36_Witness ==
    /\ pc # "ac3"
    /\ ac3_result = "True"
    /\ \E s \in DOMAIN domains : domains[s] # domains0[s] /\ domains[s] # {}
    /\ Len(slots) = 3

\* C37: the search terminates: once backtrack is running solve() returns, a
\* complete assignment or None; and every turn of a loop of backtrack takes a
\* word that loop has not taken before, under the assignment the call was
\* entered with.
C37_SearchTerminates ==
    /\ (pc \in {"call", "loop"}) ~> (pc = "ready")
    /\ [][(pc = "loop" /\ Len(stack') = Len(stack)) =>
            LET frame == stack[Len(stack)]
            IN  /\ assignment = frame.entry
                /\ \E word \in frame.words :
                      /\ stack'[Len(stack)].words = frame.words \ {word}
                      /\ pc' = "call" =>
                            assignment' = Put(assignment, frame.slot, word)
         ]_vars

\* a search that tried words, came back from every one and returned None
C37_Witness ==
    /\ pc = "ready"
    /\ ac3_result = "True"
    /\ ReturnedNone
    /\ backtrack_count >= 3

---------------------------------------------------------------------------
(* ac3() with the arcs of the overlap map in any order: the queue starts as
   list(self.overlaps.keys()), whose order is the order in which the caller
   filled the dict. *)

\* the most overlapping pairs of slots
MaxArcPairs == 2

\* the lists that hold every element of a set once
Orders(S) ==
    {q \in [1..Cardinality(S) -> S] :
        \A i, j \in 1..Cardinality(S) : i # j => q[i] # q[j]}

\* solve() has been called on a new solver of three slots and ac3() has built
\* its queue
InitOrder ==
    /\ slots \in {sl \in SlotLists : Len(sl) = 3}
    /\ word_list \in WordLists
    /\ Cardinality(word_list) <= MaxWords
    /\ overlaps \in OverlapMaps(slots)
    /\ Cardinality(DOMAIN overlaps) <= 2 * MaxArcPairs
    /\ theme_assignment = EmptyDict
    /\ theme = None
    /\ theme_influence = 1
    /\ domains = ConstructedDomains(slots, word_list, overlaps,
                                    theme_assignment)
    /\ queue \in Orders(DOMAIN overlaps)
    /\ pc = "ac3"
    /\ ac3_result = "running"
    /\ assignment = EmptyDict
    /\ stack = <<>>
    /\ backtrack_count = 0
    /\ returned = <<>>
    /\ printed = <<>>
    /\ NoGrid
    /\ NoTheme

NextOrder == Ac3Step \/ Ac3Done

SpecOrder == InitOrder /\ [][NextOrder]_vars

\* every word of E has a partner in E across every arc
ArcConsistentIn(E) ==
    \A p \in DOMAIN overlaps : \A w \in E[p[1]] : \E w2 \in E[p[2]] :
        Agree(w, overlaps[p][1], w2, overlaps[p][2])

\* the arc-consistent families of sub-domains of doms
ArcConsistentSubDomains(doms) ==
    {E \in [DOMAIN doms -> SUBSET UNION {doms[s] : s \in DOMAIN doms}] :
        /\ \A s \in DOMAIN doms : E[s] \subseteq doms[s]
        /\ ArcConsistentIn(E)}

\* the largest of them: slot by slot, the union of them all
LargestArcConsistent(doms) ==
    [s \in DOMAIN doms |-> UNION {E[s] : E \in ArcConsistentSubDomains(doms)}]

\* ac3() has returned
Ac3Returned == pc # "ac3" /\ ac3_result \in {"True", "False"}

\* C38: whatever the order of the arcs in the queue, ac3() succeeds exactly
\* when the largest arc-consistent sub-domains of the initial domains leave
\* no slot without a word that had one, and on success the final domains are
\* those largest arc-consistent sub-domains.
C38_Ac3OrderIndependent ==
    Ac3Returned =>
        LET largest == LargestArcConsistent(domains0)
        IN  /\ ac3_result = "True" <=>
                  \A s \in DOMAIN domains0 :
                      largest[s] = {} => domains0[s] = {}
            /\ ac3_result = "True" => domains = largest

\* ac3() has succeeded after pruning the domains of a map of two overlapping
\* pairs of slots
C38_Witness ==
    /\ Ac3Returned
    /\ ac3_result = "True"
    /\ \E s \in DOMAIN domains : domains[s] # domains0[s]
    /\ Cardinality(DOMAIN overlaps) = 4

====
